---- MODULE Spec2Model ----
(***************************************************************************)
(* Data Source Resilience Layer of QuantDinger                             *)
(* (backend_api_python/app/data_sources): CircuitBreaker, DataCache, the   *)
(* AShareDataManager failover walk and its kline adapters, RateLimiter     *)
(* and retry_with_backoff.                                                 *)
(*                                                                         *)
(* now is the value of time.time() in whole seconds; the RateLimiter and   *)
(* the retry wrapper keep their own, finer, time.  The specifications     *)
(* SpecShared, SpecLocked, SpecRace, SpecPair and SpecOverlap run two     *)
(* threads on one breaker, cache partition, limiter and Manager, one read *)
(* or write at a time where the code takes no lock.                       *)
(***************************************************************************)
EXTENDS Integers, Sequences, FiniteSets, TLC

VARIABLES
    now,          \* time.time()
    cb,           \* cb[b] = CircuitBreaker._states of breaker instance b
    last,         \* history: the most recent direct breaker call and its return value
    consec,       \* history: record_failure calls since the last record_success / reset
    probeFailAt,  \* history: {time of the latest record_failure taken in HALF_OPEN}, or {}
    grants,       \* history: is_available() = True returns since the cooldown ended
    cache,        \* cache[c] = the DataCache partition c
    has_akshare,  \* AShareDataManager._has_akshare
    req,          \* req[t] = the Manager request thread t is executing, with its trace
    nreq,         \* number of Manager requests started
    conf,         \* the constructor arguments of the DataCache called directly
    store,        \* that DataCache: _cache, _hits, _misses
    called,       \* history: the most recent direct DataCache call and its return value
    gets,         \* history: number of direct DataCache.get calls
    touched,      \* history: touched[k] = the call that last inserted or hit key k, if any
    nops,         \* number of direct calls since Init
    kl,           \* a kline adapter called directly: arguments, upstream answer, result
    rl,           \* a RateLimiter, the clock it reads and the number of wait() calls
    waited,       \* history: the most recent wait() call of that RateLimiter
    rt,           \* one call of a function wrapped by retry_with_backoff, with its trace
    thr,          \* threads calling one object at the same time: each one's call,
                  \* position in the method body and local variables
    hist          \* history of those calls

vars == <<now, cb, last, consec, probeFailAt, grants, cache, has_akshare, req, nreq,
          conf, store, called, gets, touched, nops, kl, rl, waited, rt, thr, hist>>

cbGhosts == <<last, consec, probeFailAt, grants>>

mgrVars == <<cache, has_akshare, req, nreq>>

dcVars == <<conf, store, called, gets, touched, nops>>

\* what neither the breakers nor the Manager touch
rlVars == <<rl, waited>>

parVars == <<thr, hist>>

libVars == <<dcVars, kl, rlVars, rt, parVars>>

(***************************************************************************)
(* Bounds of the model                                                     *)
(***************************************************************************)
MaxTime == 1200        \* the clock stops advancing here
MaxFailures == 4       \* record_failure is not called on a source with this many failures
GrantCap == 3          \* the grants history counter saturates here
MaxRequests == 2       \* Manager requests started in one behaviour
MaxOps == 3            \* direct DataCache calls made in one behaviour

StartTimes == {600}    \* time.time() when the process starts
Deltas == {60}         \* clock advances between direct breaker calls
RequestDeltas == {300}  \* clock advances between Manager requests

None == "None"

Min(a, b) == IF a < b THEN a ELSE b

(***************************************************************************)
(* circuit_breaker.py                                                      *)
(***************************************************************************)
CLOSED == "closed"
OPEN == "open"
HALF_OPEN == "half_open"
CircuitState == {CLOSED, OPEN, HALF_OPEN}

\* DataSource ids of data_manager.py
EASTMONEY == "eastmoney"
TENCENT == "tencent"
SINA == "sina"
AKSHARE == "akshare"
YFINANCE == "yfinance"

\* the two module-level breaker instances
ashare_circuit_breaker ==
    [failure_threshold |-> 3, cooldown_seconds |-> 300, half_open_max_calls |-> 1]

realtime_circuit_breaker ==
    [failure_threshold |-> 2, cooldown_seconds |-> 180, half_open_max_calls |-> 1]

Breakers == {"ashare", "realtime"}

Params(b) == IF b = "ashare" THEN ashare_circuit_breaker ELSE realtime_circuit_breaker

\* the record _get_state creates for an unknown source
NewSourceState ==
    [state |-> CLOSED, failures |-> 0, last_failure_time |-> 0,
     half_open_calls |-> 0, last_error |-> None]

\* _get_state: the _states map after the lookup (the source is created when missing)
get_state(states, source) ==
    IF source \in DOMAIN states THEN states ELSE states @@ (source :> NewSourceState)

\* is_available that lets nothing through while the source is OPEN
is_available_ret_open_denies(p, states, source, t) ==
    LET state == get_state(states, source)[source] IN
    CASE state.state = CLOSED -> TRUE
      [] state.state = OPEN -> FALSE
      [] state.state = HALF_OPEN -> state.half_open_calls < p.half_open_max_calls
      [] OTHER -> TRUE

\* is_available: the return value
is_available_ret(p, states, source, t) ==
    LET state == get_state(states, source)[source] IN
    CASE state.state = CLOSED -> TRUE
      [] state.state = OPEN -> t - state.last_failure_time >= p.cooldown_seconds
      [] state.state = HALF_OPEN -> state.half_open_calls < p.half_open_max_calls
      [] OTHER -> TRUE

\* is_available that closes an OPEN source once the cooldown has elapsed
is_available_states_reclosing(p, states, source, t) ==
    LET st == get_state(states, source)
        state == st[source] IN
    IF state.state = OPEN /\ t - state.last_failure_time >= p.cooldown_seconds
    THEN [st EXCEPT ![source].state = CLOSED, ![source].half_open_calls = 0]
    ELSE st

\* is_available: the _states map it leaves
is_available_states(p, states, source, t) ==
    LET st == get_state(states, source)
        state == st[source] IN
    IF state.state = OPEN /\ t - state.last_failure_time >= p.cooldown_seconds
    THEN [st EXCEPT ![source].state = HALF_OPEN, ![source].half_open_calls = 0]
    ELSE st

\* record_success that resets a source only when it is HALF_OPEN
record_success_half_open_only(p, states, source) ==
    LET st == get_state(states, source) IN
    IF st[source].state = HALF_OPEN
    THEN [st EXCEPT ![source].state = CLOSED,
                    ![source].failures = 0,
                    ![source].half_open_calls = 0,
                    ![source].last_error = None]
    ELSE st

\* record_success that closes the source and keeps its failures counter
record_success_closes_only(p, states, source) ==
    LET st == get_state(states, source) IN
    [st EXCEPT ![source].state = CLOSED,
               ![source].half_open_calls = 0,
               ![source].last_error = None]

\* record_success: the _states map it leaves
record_success(p, states, source) ==
    LET st == get_state(states, source) IN
    [st EXCEPT ![source].state = CLOSED,
               ![source].failures = 0,
               ![source].half_open_calls = 0,
               ![source].last_error = None]

\* record_failure that leaves last_failure_time as it found it
record_failure_untimed(p, states, source, error, t) ==
    LET st == get_state(states, source)
        s1 == [st[source] EXCEPT !.failures = @ + 1,
                                 !.last_error = error]
        s2 == IF s1.state = HALF_OPEN
              THEN [s1 EXCEPT !.state = OPEN, !.half_open_calls = 0]
              ELSE IF s1.failures >= p.failure_threshold
                   THEN [s1 EXCEPT !.state = OPEN]
                   ELSE s1 IN
    [st EXCEPT ![source] = s2]

\* record_failure that opens only when failures exceed the threshold
record_failure_late(p, states, source, error, t) ==
    LET st == get_state(states, source)
        s1 == [st[source] EXCEPT !.failures = @ + 1,
                                 !.last_failure_time = t,
                                 !.last_error = error]
        s2 == IF s1.state = HALF_OPEN
              THEN [s1 EXCEPT !.state = OPEN, !.half_open_calls = 0]
              ELSE IF s1.failures > p.failure_threshold
                   THEN [s1 EXCEPT !.state = OPEN]
                   ELSE s1 IN
    [st EXCEPT ![source] = s2]

\* record_failure that keeps the time of the failure that opened the breaker
record_failure_stale(p, states, source, error, t) ==
    LET st == get_state(states, source)
        s1 == [st[source] EXCEPT !.failures = @ + 1,
                                 !.last_failure_time =
                                     IF st[source].state = CLOSED THEN t ELSE @,
                                 !.last_error = error]
        s2 == IF s1.state = HALF_OPEN
              THEN [s1 EXCEPT !.state = OPEN, !.half_open_calls = 0]
              ELSE IF s1.failures >= p.failure_threshold
                   THEN [s1 EXCEPT !.state = OPEN]
                   ELSE s1 IN
    [st EXCEPT ![source] = s2]

\* record_failure that stores the error only when it opens the source
record_failure_error_on_open(p, states, source, error, t) ==
    LET st == get_state(states, source)
        s1 == [st[source] EXCEPT !.failures = @ + 1,
                                 !.last_failure_time = t]
        s2 == IF s1.state = HALF_OPEN
              THEN [s1 EXCEPT !.state = OPEN, !.half_open_calls = 0]
              ELSE IF s1.failures >= p.failure_threshold
                   THEN [s1 EXCEPT !.state = OPEN, !.last_error = error]
                   ELSE s1 IN
    [st EXCEPT ![source] = s2]

\* record_failure that ignores a failure reported for an OPEN source
record_failure_unless_open(p, states, source, error, t) ==
    LET st == get_state(states, source)
        s1 == [st[source] EXCEPT !.failures = @ + 1,
                                 !.last_failure_time = t,
                                 !.last_error = error]
        s2 == IF s1.state = HALF_OPEN
              THEN [s1 EXCEPT !.state = OPEN, !.half_open_calls = 0]
              ELSE IF s1.failures >= p.failure_threshold
                   THEN [s1 EXCEPT !.state = OPEN]
                   ELSE s1 IN
    IF st[source].state = OPEN THEN st ELSE [st EXCEPT ![source] = s2]

\* record_failure: the _states map it leaves
record_failure(p, states, source, error, t) ==
    LET st == get_state(states, source)
        s1 == [st[source] EXCEPT !.failures = @ + 1,
                                 !.last_failure_time = t,
                                 !.last_error = error]
        s2 == IF s1.state = HALF_OPEN
              THEN [s1 EXCEPT !.state = OPEN, !.half_open_calls = 0]
              ELSE IF s1.failures >= p.failure_threshold
                   THEN [s1 EXCEPT !.state = OPEN]
                   ELSE s1 IN
    [st EXCEPT ![source] = s2]

\* reset that closes the source and keeps its record
reset_keeps_record(states, source) ==
    IF source # None
    THEN IF source \in DOMAIN states
         THEN [states EXCEPT ![source].state = CLOSED, ![source].last_error = None]
         ELSE states
    ELSE <<>>

\* reset: "if source:" deletes the record of a known source, otherwise
\* self._states.clear()
reset(states, source) ==
    IF source # None
    THEN IF source \in DOMAIN states
         THEN [s \in DOMAIN states \ {source} |-> states[s]]
         ELSE states
    ELSE <<>>

\* get_status
get_status(states) ==
    [source \in DOMAIN states |->
        [state |-> states[source].state,
         failures |-> states[source].failures,
         last_error |-> states[source].last_error]]

\* the state of a source as a caller sees it ("absent" before _get_state created it)
StateOf(b, source) ==
    IF source \in DOMAIN cb[b] THEN cb[b][source].state ELSE "absent"

FailuresOf(b, source) ==
    IF source \in DOMAIN cb[b] THEN cb[b][source].failures ELSE 0

(***************************************************************************)
(* cache_manager.py                                                        *)
(* A partition is [entries, hits, misses]; entries is the OrderedDict as a *)
(* sequence of [key, data, timestamp, ttl, hit_count], least recently used *)
(* first.                                                                  *)
(***************************************************************************)
\* the module-level partitions: DataCache(name, default_ttl, max_size)
ashare_realtime_cache == [default_ttl |-> 1200, max_size |-> 6000]
kline_cache == [default_ttl |-> 300, max_size |-> 500]
stock_info_cache == [default_ttl |-> 86400, max_size |-> 6000]

Partitions == {"kline", "realtime"}

CacheParams(c) == IF c = "kline" THEN kline_cache ELSE ashare_realtime_cache

\* DataCache.__init__
NewCache == [entries |-> <<>>, hits |-> 0, misses |-> 0]

\* "if entry.is_expired:" without the call: the bound method is always true
is_expired_uncalled(entry, t) == TRUE

\* CacheEntry.is_expired with the operands of the subtraction exchanged
is_expired_swapped(entry, t) == entry.timestamp - t > entry.ttl

\* CacheEntry.is_expired with ">=" for ">"
is_expired_at_ttl(entry, t) == t - entry.timestamp >= entry.ttl

\* CacheEntry.is_expired
is_expired(entry, t) == t - entry.timestamp > entry.ttl

\* position of key in the OrderedDict, 0 when absent
IndexOf(entries, key) ==
    IF \E i \in 1..Len(entries) : entries[i].key = key
    THEN CHOOSE i \in 1..Len(entries) : entries[i].key = key
    ELSE 0

\* del self._cache[key]
Remove(entries, i) ==
    [j \in 1..(Len(entries) - 1) |-> IF j < i THEN entries[j] ELSE entries[j + 1]]

\* an Optional value: Nothing is Python's None, Some(v) a value
Nothing == <<>>
Some(v) == <<v>>

\* DataCache.get: the return value
cache_get_ret(dc, key, t) ==
    LET i == IndexOf(dc.entries, key) IN
    IF i = 0 THEN Nothing
    ELSE IF is_expired(dc.entries[i], t) THEN Nothing
    ELSE Some(dc.entries[i].data)

\* DataCache.get without "self._misses += 1" where it deletes an expired entry
cache_get_uncounted_expiry(dc, key, t) ==
    LET i == IndexOf(dc.entries, key) IN
    IF i = 0 THEN [dc EXCEPT !.misses = @ + 1]
    ELSE IF is_expired(dc.entries[i], t)
         THEN [dc EXCEPT !.entries = Remove(@, i)]
         ELSE [dc EXCEPT
                 !.entries = Append(Remove(@, i),
                                    [dc.entries[i] EXCEPT !.hit_count = @ + 1]),
                 !.hits = @ + 1]

\* DataCache.get without move_to_end
cache_get_unmoved(dc, key, t) ==
    LET i == IndexOf(dc.entries, key) IN
    IF i = 0 THEN [dc EXCEPT !.misses = @ + 1]
    ELSE IF is_expired(dc.entries[i], t)
         THEN [dc EXCEPT !.entries = Remove(@, i), !.misses = @ + 1]
         ELSE [dc EXCEPT !.entries[i].hit_count = @ + 1, !.hits = @ + 1]

\* DataCache.get: the partition it leaves
cache_get(dc, key, t) ==
    LET i == IndexOf(dc.entries, key) IN
    IF i = 0 THEN [dc EXCEPT !.misses = @ + 1]
    ELSE IF is_expired(dc.entries[i], t)
         THEN [dc EXCEPT !.entries = Remove(@, i), !.misses = @ + 1]
         ELSE [dc EXCEPT
                 !.entries = Append(Remove(@, i),
                                    [dc.entries[i] EXCEPT !.hit_count = @ + 1]),
                 !.hits = @ + 1]

\* the while loop of DataCache.set: popitem(last=False) until len < max_size
RECURSIVE evict(_, _)
evict(entries, max_size) ==
    IF Len(entries) >= max_size /\ Len(entries) > 0
    THEN evict(Tail(entries), max_size)
    ELSE entries

\* DataCache.set with self._cache.setdefault(key, CacheEntry(...))
cache_set_setdefault(p, dc, key, data, ttl, t) ==
    LET kept == evict(dc.entries, p.max_size)
        entry == [key |-> key, data |-> data, timestamp |-> t,
                  ttl |-> IF ttl # Nothing THEN ttl[1] ELSE p.default_ttl,
                  hit_count |-> 0] IN
    [dc EXCEPT !.entries = IF IndexOf(kept, key) = 0 THEN Append(kept, entry) ELSE kept]

\* DataCache.set without the capacity loop
cache_set_unbounded(p, dc, key, data, ttl, t) ==
    LET entry == [key |-> key, data |-> data, timestamp |-> t,
                  ttl |-> IF ttl # Nothing THEN ttl[1] ELSE p.default_ttl,
                  hit_count |-> 0]
        i == IndexOf(dc.entries, key) IN
    [dc EXCEPT !.entries = IF i = 0 THEN Append(dc.entries, entry)
                              ELSE [dc.entries EXCEPT ![i] = entry]]

\* DataCache.set with the assignment "self._cache[key] = ..." left out
cache_set_unstored(p, dc, key, data, ttl, t) ==
    [dc EXCEPT !.entries = evict(dc.entries, p.max_size)]

\* DataCache.set: the partition it leaves.  self._cache[key] = CacheEntry(...)
\* replaces the value of a key that is still present where it stands and
\* appends a new key at the end.
cache_set(p, dc, key, data, ttl, t) ==
    LET kept == evict(dc.entries, p.max_size)
        entry == [key |-> key, data |-> data, timestamp |-> t,
                  ttl |-> IF ttl # Nothing THEN ttl[1] ELSE p.default_ttl,
                  hit_count |-> 0]
        i == IndexOf(kept, key) IN
    [dc EXCEPT !.entries = IF i = 0 THEN Append(kept, entry)
                              ELSE [kept EXCEPT ![i] = entry]]

\* self._cache.keys()
stored_keys(entries) == {entries[i].key : i \in 1..Len(entries)}

\* DataCache.delete: the return value and the partition it leaves
cache_delete_ret(dc, key) == IndexOf(dc.entries, key) # 0

cache_delete(dc, key) ==
    LET i == IndexOf(dc.entries, key) IN
    IF i # 0 THEN [dc EXCEPT !.entries = Remove(@, i)] ELSE dc

\* DataCache.clear
cache_clear_ret(dc) == Len(dc.entries)

cache_clear(dc) == [dc EXCEPT !.entries = <<>>]

\* DataCache.cleanup_expired
expired_keys(dc, t) ==
    SelectSeq(dc.entries, LAMBDA e : is_expired(e, t))

cleanup_expired_ret(dc, t) == Len(expired_keys(dc, t))

cleanup_expired(dc, t) ==
    [dc EXCEPT !.entries = SelectSeq(@, LAMBDA e : ~is_expired(e, t))]

\* DataCache.stats, without the formatted hit rate
stats(p, dc) ==
    [size |-> Len(dc.entries), max_size |-> p.max_size, hits |-> dc.hits,
     misses |-> dc.misses, default_ttl |-> p.default_ttl]

\* generate_kline_cache_key: "symbol:timeframe:limit[:before_time]"
generate_kline_cache_key(symbol, timeframe, limit, before_time) ==
    IF before_time # Nothing /\ before_time[1] # 0
    THEN <<symbol, timeframe, limit, before_time[1]>>
    ELSE <<symbol, timeframe, limit>>

\* the key of a quote: f"quote:{symbol}"
quote_cache_key(symbol) == <<"quote", symbol>>

(***************************************************************************)
(* data_manager.py: AShareDataManager                                      *)
(***************************************************************************)
\* the provider lists of get_kline and get_realtime_quote, in the order tried
kline_sources == <<EASTMONEY, TENCENT, AKSHARE, YFINANCE>>
quote_sources == <<EASTMONEY, TENCENT, AKSHARE>>

Apis == {"get_kline", "get_realtime_quote"}
SourcesOf(api) == IF api = "get_kline" THEN kline_sources ELSE quote_sources

\* a Manager whose two APIs share the historical breaker
BreakerOf_shared(api) == "ashare"

\* self._cb for get_kline, self._realtime_cb for get_realtime_quote
BreakerOf(api) == IF api = "get_kline" THEN "ashare" ELSE "realtime"
PartitionOf(api) == IF api = "get_kline" THEN "kline" ELSE "realtime"

\* timeframes each kline adapter maps to a provider period
EM_PERIOD_MAP == {"1m", "5m", "15m", "30m", "1H", "4H", "1D", "1W"}
tencent_period_map == {"1m", "5m", "15m", "30m", "1H", "1D", "1W"}
akshare_period_map == {"1D", "1W"}

\* what an adapter call ends with
Exc(type, msg) == [type |-> type, msg |-> msg]
Returned(v) == [kind |-> "return", value |-> v]
Raised(e) == [kind |-> "raise", exc |-> e]

\* a quote dict: a function from its keys to numbers
EmptyQuote == [k \in {} |-> 0]
Quote(l) == [k \in {"last"} |-> l]
quote_get(quote, k, default) == IF k \in DOMAIN quote THEN quote[k] ELSE default

\* what the upstream servers can answer
KlineLists == {<<100, 200>>}
UpstreamErrors(source) ==
    CASE source = EASTMONEY -> {Exc("ConnectionError", "HTTP 500")}
      [] source = TENCENT -> {Exc("JSONDecodeError", "Expecting value")}
      [] source = AKSHARE -> {Exc("KeyError", "'date'")}
      [] OTHER -> {Exc("ModuleNotFoundError", "No module named 'yfinance'")}
Unsupported == Exc("ValueError", "unsupported timeframe")

UpstreamKlines(source) ==
    {Returned(k) : k \in KlineLists} \cup {Returned(<<>>)}
        \cup {Raised(e) : e \in UpstreamErrors(source)}

\* _fetch_eastmoney_kline, _fetch_tencent_kline, _fetch_akshare_kline,
\* _fetch_yfinance_kline: the ways the call can end
fetch_kline(source, timeframe, has) ==
    CASE source = EASTMONEY ->
            IF timeframe \notin EM_PERIOD_MAP THEN {Raised(Unsupported)} ELSE UpstreamKlines(source)
      [] source = TENCENT ->
            IF timeframe \notin tencent_period_map THEN {Raised(Unsupported)}
            ELSE UpstreamKlines(source)
      [] source = AKSHARE ->
            IF ~has THEN {Raised(Exc("RuntimeError", "akshare not installed"))}
            ELSE IF timeframe \notin akshare_period_map THEN {Raised(Unsupported)}
            ELSE UpstreamKlines(source)
      [] OTHER -> UpstreamKlines(source)

\* _fetch_eastmoney_quote, _fetch_tencent_quote, _fetch_akshare_quote
fetch_quote(source, has) ==
    CASE source = EASTMONEY ->
            {Returned(EmptyQuote), Returned(Quote(10))}
                \cup {Raised(e) : e \in UpstreamErrors(source)}
      [] source = AKSHARE /\ ~has -> {Returned(EmptyQuote)}
      [] OTHER ->
            {Returned(EmptyQuote), Returned(Quote(0)), Returned(Quote(10))}
                \cup {Raised(e) : e \in UpstreamErrors(source)}

\* "if klines:" with the empty list counted as a result
kline_success_any(klines) == TRUE

\* "if klines:"
kline_success(klines) == Len(klines) > 0

\* "if quote:", without the test of last
quote_success_nonempty(quote) == DOMAIN quote # {}

\* "if quote and quote.get('last', 0) > 0:"
quote_success(quote) == DOMAIN quote # {} /\ quote_get(quote, "last", 0) > 0

\* "if cached is True:", which no cached list or quote satisfies
truthy_identity(api, value) == FALSE

\* "if cached:"
truthy(api, value) ==
    IF api = "get_kline" THEN Len(value) > 0 ELSE DOMAIN value # {}

\* the two "continue" tests at the head of the provider loop, ignoring the breaker
attempted_always(avail, source, has) == ~(source = AKSHARE /\ ~has)

\* the two "continue" tests at the head of the provider loop
attempted(avail, source, has) == avail /\ ~(source = AKSHARE /\ ~has)

\* the exception classes the adapters raise, all subclasses of Exception
Exceptions == {"ConnectionError", "JSONDecodeError", "KeyError", "ModuleNotFoundError",
               "ValueError", "RuntimeError"}

\* an except clause that catches connection errors only
caught_connection_only(exc) == exc.type = "ConnectionError"

\* "except Exception as e"
caught(exc) == exc.type \in Exceptions

\* the return value when every provider was skipped or failed
exhausted(api, symbol) ==
    IF api = "get_kline" THEN <<>>
    ELSE [k \in {"last", "symbol"} |-> IF k = "last" THEN 0 ELSE symbol]

\* a set call without the ttl argument: the partition's default applies
success_ttl_default(api) == Nothing

\* ttl passed to the cache on success
success_ttl(api) == IF api = "get_kline" THEN Nothing ELSE Some(60)

Threads == {"t1"}
Symbols == {"600000"}
Timeframes == {"1D"}
Limits == {5}
BeforeTimes == {Nothing}

IdleRequest ==
    [pc |-> "idle", api |-> "get_kline", symbol |-> "", timeframe |-> "", limit |-> 0,
     before_time |-> Nothing, use_cache |-> FALSE, i |-> 0, log |-> <<>>,
     ret |-> [kind |-> "none"]]

KeyOf(r) ==
    IF r.api = "get_kline"
    THEN generate_kline_cache_key(r.symbol, r.timeframe, r.limit, r.before_time)
    ELSE quote_cache_key(r.symbol)

Return(value, source) == [kind |-> "return", data |-> value, source |-> source]

\* one entry of the trace of a request, per provider reached by the loop:
\*   pre, waited  the source's state and now - last_failure_time when is_available ran
\*   avail        what is_available returned
\*   outcome      "skipped" (continue before the call), "pending" (adapter running),
\*                "success", "passed" (result not used, next provider), "raised"
\*   value        what the adapter returned, err the string of what it raised
\*   fBefore, fAfter, errAfter, others   the source's failures before and after
\*                record_failure, its last_error after, and whether every other
\*                source of both breakers was left as it was
LogEntry(b, source, avail, outcome) ==
    [src |-> source, avail |-> avail, outcome |-> outcome,
     pre |-> StateOf(b, source),
     waited |-> IF source \in DOMAIN cb[b]
                THEN now - cb[b][source].last_failure_time ELSE 0,
     value |-> Nothing, err |-> None,
     fBefore |-> 0, fAfter |-> 0, errAfter |-> None, others |-> TRUE]

SetLast(log, e) == [log EXCEPT ![Len(log)] = e]

\* the breaker b going to the map after changes no source but source
OthersSame(b, source, after) ==
    /\ DOMAIN after = DOMAIN cb[b] \cup {source}
    /\ \A s \in DOMAIN cb[b] \ {source} : after[s] = cb[b][s]

\* a cache lookup made whatever use_cache is
Enter_cache_always(t, api, symbol, timeframe, limit, before_time, use_cache) ==
    LET r0 == [IdleRequest EXCEPT !.api = api, !.symbol = symbol,
                   !.timeframe = timeframe, !.limit = limit,
                   !.before_time = before_time, !.use_cache = use_cache, !.i = 1]
        part == PartitionOf(api)
        cached == cache_get_ret(cache[part], KeyOf(r0), now)
        hit == cached # Nothing /\ truthy(api, cached[1]) IN
    /\ req[t].pc = "idle"
    /\ nreq < MaxRequests
    /\ nreq' = nreq + 1
    /\ cache' = [cache EXCEPT ![part] = cache_get(@, KeyOf(r0), now)]
    /\ req' = [req EXCEPT ![t] =
                  IF hit THEN [r0 EXCEPT !.pc = "done", !.ret = Return(cached[1], "cache")]
                  ELSE [r0 EXCEPT !.pc = "walk"]]
    /\ UNCHANGED <<now, cb, has_akshare, cbGhosts, libVars>>

\* get_kline / get_realtime_quote up to the provider loop: the cache lookup
Enter(t, api, symbol, timeframe, limit, before_time, use_cache) ==
    LET r0 == [IdleRequest EXCEPT !.api = api, !.symbol = symbol,
                   !.timeframe = timeframe, !.limit = limit,
                   !.before_time = before_time, !.use_cache = use_cache, !.i = 1]
        part == PartitionOf(api)
        cached == cache_get_ret(cache[part], KeyOf(r0), now)
        hit == use_cache /\ cached # Nothing /\ truthy(api, cached[1]) IN
    /\ req[t].pc = "idle"
    /\ nreq < MaxRequests
    /\ nreq' = nreq + 1
    /\ cache' = IF use_cache
                THEN [cache EXCEPT ![part] = cache_get(@, KeyOf(r0), now)]
                ELSE cache
    /\ req' = [req EXCEPT ![t] =
                  IF hit THEN [r0 EXCEPT !.pc = "done", !.ret = Return(cached[1], "cache")]
                  ELSE [r0 EXCEPT !.pc = "walk"]]
    /\ UNCHANGED <<now, cb, has_akshare, cbGhosts, libVars>>

get_kline(t, symbol, timeframe, limit, before_time, use_cache) ==
    Enter(t, "get_kline", symbol, timeframe, limit, before_time, use_cache)

get_realtime_quote(t, symbol, use_cache) ==
    Enter(t, "get_realtime_quote", symbol, "", 0, Nothing, use_cache)

\* a loop that comes back to a source it skipped until the source is usable
Walk_until_usable(t) ==
    LET r == req[t]
        srcs == SourcesOf(r.api)
        b == BreakerOf(r.api) IN
    /\ r.pc = "walk"
    /\ IF r.i > Len(srcs)
       THEN /\ req' = [req EXCEPT ![t] =
                          [r EXCEPT !.pc = "done",
                                    !.ret = Return(exhausted(r.api, r.symbol), "")]]
            /\ cb' = cb
       ELSE LET source == srcs[r.i]
                avail == is_available_ret(Params(b), cb[b], source, now) IN
            /\ cb' = [cb EXCEPT ![b] = is_available_states(Params(b), @, source, now)]
            /\ req' = [req EXCEPT ![t] =
                  IF attempted(avail, source, has_akshare)
                  THEN [r EXCEPT !.pc = "fetch",
                                 !.log = Append(@, LogEntry(b, source, avail, "pending"))]
                  ELSE r]
    /\ UNCHANGED <<now, cache, has_akshare, nreq, cbGhosts, libVars>>

\* the head of one iteration of "for source_name, fetch_func in sources", or
\* the return after the loop
Walk(t) ==
    LET r == req[t]
        srcs == SourcesOf(r.api)
        b == BreakerOf(r.api) IN
    /\ r.pc = "walk"
    /\ IF r.i > Len(srcs)
       THEN /\ req' = [req EXCEPT ![t] =
                          [r EXCEPT !.pc = "done",
                                    !.ret = Return(exhausted(r.api, r.symbol), "")]]
            /\ cb' = cb
       ELSE LET source == srcs[r.i]
                avail == is_available_ret(Params(b), cb[b], source, now) IN
            /\ cb' = [cb EXCEPT ![b] = is_available_states(Params(b), @, source, now)]
            /\ req' = [req EXCEPT ![t] =
                  IF attempted(avail, source, has_akshare)
                  THEN [r EXCEPT !.pc = "fetch",
                                 !.log = Append(@, LogEntry(b, source, avail, "pending"))]
                  ELSE [r EXCEPT !.i = @ + 1,
                                 !.log = Append(@, LogEntry(b, source, avail, "skipped"))]]
    /\ UNCHANGED <<now, cache, has_akshare, nreq, cbGhosts, libVars>>

\* a loop body that counts a result it cannot use as a failure of the source
FetchReturn_unusable_fails(t) ==
    LET r == req[t]
        b == BreakerOf(r.api)
        part == PartitionOf(r.api)
        source == SourcesOf(r.api)[r.i]
        e0 == r.log[Len(r.log)]
        ends == IF r.api = "get_kline"
                THEN fetch_kline(source, r.timeframe, has_akshare)
                ELSE fetch_quote(source, has_akshare) IN
    /\ r.pc = "fetch"
    /\ \E out \in ends :
          IF out.kind = "return"
          THEN IF (IF r.api = "get_kline" THEN kline_success(out.value)
                   ELSE quote_success(out.value))
               THEN /\ cb' = [cb EXCEPT ![b] = record_success(Params(b), @, source)]
                    /\ cache' = IF r.use_cache
                                THEN [cache EXCEPT ![part] =
                                        cache_set(CacheParams(part), @, KeyOf(r),
                                                  out.value, success_ttl(r.api), now)]
                                ELSE cache
                    /\ req' = [req EXCEPT ![t] =
                          [r EXCEPT !.pc = "done",
                                    !.log = SetLast(@, [e0 EXCEPT !.outcome = "success",
                                                                  !.value = Some(out.value)]),
                                    !.ret = Return(out.value, source)]]
               ELSE /\ req' = [req EXCEPT ![t] =
                          [r EXCEPT !.pc = "walk", !.i = @ + 1,
                                    !.log = SetLast(@, [e0 EXCEPT !.outcome = "passed",
                                                                  !.value = Some(out.value)])]]
                    /\ cb' = [cb EXCEPT ![b] =
                                 record_failure(Params(b), @, source, "no data", now)]
                    /\ cache' = cache
          ELSE IF caught(out.exc)
               THEN LET after == record_failure(Params(b), cb[b], source,
                                                out.exc.msg, now) IN
                    /\ cb' = [cb EXCEPT ![b] = after]
                    /\ req' = [req EXCEPT ![t] =
                          [r EXCEPT !.pc = "walk", !.i = @ + 1,
                                    !.log = SetLast(@,
                                       [e0 EXCEPT !.outcome = "raised",
                                                  !.fBefore = FailuresOf(b, source),
                                                  !.fAfter = after[source].failures,
                                                  !.err = out.exc.msg,
                                                  !.errAfter = after[source].last_error,
                                                  !.others = OthersSame(b, source, after)])]]
                    /\ cache' = cache
               ELSE /\ req' = [req EXCEPT ![t] =
                          [r EXCEPT !.pc = "done",
                                    !.log = SetLast(@, [e0 EXCEPT !.outcome = "raised",
                                                                  !.err = out.exc.msg]),
                                    !.ret = [kind |-> "raise"]]]
                    /\ UNCHANGED <<cb, cache>>
    /\ UNCHANGED <<now, has_akshare, nreq, cbGhosts, libVars>>

\* the adapter call comes back: the rest of the loop body
FetchReturn(t) ==
    LET r == req[t]
        b == BreakerOf(r.api)
        part == PartitionOf(r.api)
        source == SourcesOf(r.api)[r.i]
        e0 == r.log[Len(r.log)]
        ends == IF r.api = "get_kline"
                THEN fetch_kline(source, r.timeframe, has_akshare)
                ELSE fetch_quote(source, has_akshare) IN
    /\ r.pc = "fetch"
    /\ \E out \in ends :
          IF out.kind = "return"
          THEN IF (IF r.api = "get_kline" THEN kline_success(out.value)
                   ELSE quote_success(out.value))
               THEN /\ cb' = [cb EXCEPT ![b] = record_success(Params(b), @, source)]
                    /\ cache' = IF r.use_cache
                                THEN [cache EXCEPT ![part] =
                                        cache_set(CacheParams(part), @, KeyOf(r),
                                                  out.value, success_ttl(r.api), now)]
                                ELSE cache
                    /\ req' = [req EXCEPT ![t] =
                          [r EXCEPT !.pc = "done",
                                    !.log = SetLast(@, [e0 EXCEPT !.outcome = "success",
                                                                  !.value = Some(out.value)]),
                                    !.ret = Return(out.value, source)]]
               ELSE /\ req' = [req EXCEPT ![t] =
                          [r EXCEPT !.pc = "walk", !.i = @ + 1,
                                    !.log = SetLast(@, [e0 EXCEPT !.outcome = "passed",
                                                                  !.value = Some(out.value)])]]
                    /\ UNCHANGED <<cb, cache>>
          ELSE IF caught(out.exc)
               THEN LET after == record_failure(Params(b), cb[b], source,
                                                out.exc.msg, now) IN
                    /\ cb' = [cb EXCEPT ![b] = after]
                    /\ req' = [req EXCEPT ![t] =
                          [r EXCEPT !.pc = "walk", !.i = @ + 1,
                                    !.log = SetLast(@,
                                       [e0 EXCEPT !.outcome = "raised",
                                                  !.fBefore = FailuresOf(b, source),
                                                  !.fAfter = after[source].failures,
                                                  !.err = out.exc.msg,
                                                  !.errAfter = after[source].last_error,
                                                  !.others = OthersSame(b, source, after)])]]
                    /\ cache' = cache
               ELSE /\ req' = [req EXCEPT ![t] =
                          [r EXCEPT !.pc = "done",
                                    !.log = SetLast(@, [e0 EXCEPT !.outcome = "raised",
                                                                  !.err = out.exc.msg]),
                                    !.ret = [kind |-> "raise"]]]
                    /\ UNCHANGED <<cb, cache>>
    /\ UNCHANGED <<now, has_akshare, nreq, cbGhosts, libVars>>

\* the caller takes the returned pair
Finish(t) ==
    /\ req[t].pc = "done"
    /\ req' = [req EXCEPT ![t] = IdleRequest]
    /\ UNCHANGED <<now, cb, cache, has_akshare, nreq, cbGhosts, libVars>>

(***************************************************************************)
(* Direct calls on a breaker                                               *)
(***************************************************************************)
CBSources == {EASTMONEY}
ErrorArgs == {None, "HTTP 500"}

Call(op, b, source, res, pre) ==
    [op |-> op, br |-> b, src |-> source, res |-> res, pre |-> pre, at |-> now]

IsAvailable(b, source) ==
    LET p == Params(b)
        res == is_available_ret(p, cb[b], source, now)
        pre == StateOf(b, source)
        cooled == pre = OPEN /\ res IN
    /\ cb' = [cb EXCEPT ![b] = is_available_states(p, @, source, now)]
    /\ last' = Call("is_available", b, source, res, pre)
    /\ grants' = [grants EXCEPT ![b][source] =
                     IF cooled THEN 1
                     ELSE IF pre = HALF_OPEN /\ res THEN Min(@ + 1, GrantCap)
                     ELSE @]
    /\ UNCHANGED <<now, consec, probeFailAt, mgrVars, libVars>>

RecordSuccess(b, source) ==
    /\ cb' = [cb EXCEPT ![b] = record_success(Params(b), @, source)]
    /\ last' = Call("record_success", b, source, FALSE, StateOf(b, source))
    /\ consec' = [consec EXCEPT ![b][source] = 0]
    /\ probeFailAt' = [probeFailAt EXCEPT ![b][source] = {}]
    /\ grants' = [grants EXCEPT ![b][source] = 0]
    /\ UNCHANGED <<now, mgrVars, libVars>>

RecordFailure(b, source, error) ==
    /\ FailuresOf(b, source) < MaxFailures
    /\ cb' = [cb EXCEPT ![b] = record_failure(Params(b), @, source, error, now)]
    /\ last' = Call("record_failure", b, source, FALSE, StateOf(b, source))
    /\ consec' = [consec EXCEPT ![b][source] = @ + 1]
    /\ probeFailAt' = [probeFailAt EXCEPT ![b][source] =
                          IF StateOf(b, source) = HALF_OPEN THEN {now} ELSE @]
    /\ grants' = [grants EXCEPT ![b][source] = 0]
    /\ UNCHANGED <<now, mgrVars, libVars>>

Advance(ds) ==
    /\ \E d \in ds :
          /\ now + d <= MaxTime
          /\ now' = now + d
    /\ UNCHANGED <<cb, cbGhosts, mgrVars, libVars>>

\* the clock between two direct breaker calls
Tick == Advance(Deltas)

\* the clock between two Manager requests; the first request is made at the
\* start time (a CLOSED source's last_failure_time is never read, so waiting
\* before it only shifts every later time)
Elapse ==
    /\ nreq > 0
    /\ \A t \in Threads : req[t].pc = "idle"
    /\ Advance(RequestDeltas)

NoCall == [op |-> "none", br |-> "ashare", src |-> EASTMONEY, res |-> FALSE,
           pre |-> "absent", at |-> 0]

(***************************************************************************)
(* The kline adapters, from the upstream answer to the returned list       *)
(* A raw candle is [day, fields]: its date and the number of fields of     *)
(* its line; a kline is represented by its 'time'.                         *)
(***************************************************************************)
MaxCandles == 3        \* candles in one upstream answer

Days == {1, 2, 3}
FieldCounts == {5, 6}
LimitArgs == {1, 2}
BeforeTimeArgs == {Nothing, Some(172800)}

\* int(datetime.strptime(time_str, '%Y-%m-%d').timestamp()), days counted from the epoch
timestamp(day) == day * 86400

\* klines.sort(key=lambda x: x['time'])
RECURSIVE insert(_, _)
insert(sorted, x) ==
    IF sorted = <<>> THEN <<x>>
    ELSE IF x < sorted[Len(sorted)] THEN Append(insert(SubSeq(sorted, 1, Len(sorted) - 1), x),
                                                sorted[Len(sorted)])
    ELSE Append(sorted, x)

RECURSIVE sort(_)
sort(klines) ==
    IF klines = <<>> THEN <<>>
    ELSE insert(sort(SubSeq(klines, 1, Len(klines) - 1)), klines[Len(klines)])

\* klines[-limit:] and df.tail(limit)
tail(klines, limit) ==
    IF Len(klines) > limit THEN SubSeq(klines, Len(klines) - limit + 1, Len(klines))
    ELSE klines

\* "# 过滤和排序": sort, "if before_time:" filter, keep the last limit
normalize(klines, limit, before_time) ==
    LET sorted == sort(klines)
        kept == IF before_time # Nothing /\ before_time[1] # 0
                THEN SelectSeq(sorted, LAMBDA k : k < before_time[1])
                ELSE sorted IN
    tail(kept, limit)

\* the parse loops: lines with too few fields are passed over
parsed(raw, min_fields) ==
    LET ok == SelectSeq(raw, LAMBDA c : c.fields >= min_fields) IN
    [i \in 1..Len(ok) |-> timestamp(ok[i].day)]

fetch_eastmoney_kline(raw, limit, before_time) ==
    normalize(parsed(raw, 6), limit, before_time)

fetch_tencent_kline(raw, limit, before_time) ==
    normalize(parsed(raw, 5), limit, before_time)

\* df.tail(limit), then one kline per row
fetch_akshare_kline(df, limit, before_time) ==
    LET rows == tail(df, limit) IN
    [i \in 1..Len(rows) |-> timestamp(rows[i].day)]

fetch_yfinance_kline(df, limit, before_time) ==
    LET rows == tail(df, limit) IN
    [i \in 1..Len(rows) |-> timestamp(rows[i].day)]

\* upstream answers: up to MaxCandles candles of distinct days, in any order
RawCandles == [day : Days, fields : FieldCounts]

RawAnswers ==
    UNION {{r \in [1..n -> RawCandles] :
               \A i, j \in 1..n : r[i].day = r[j].day => i = j} :
           n \in 0..MaxCandles}

NoFetch == [adapter |-> "", raw |-> <<>>, limit |-> 0, before_time |-> Nothing,
            out |-> Nothing]

FetchKline(adapter) ==
    /\ kl.adapter = adapter
    /\ kl.out = Nothing
    /\ kl' = [kl EXCEPT !.out = Some(
                 CASE adapter = EASTMONEY ->
                         fetch_eastmoney_kline(kl.raw, kl.limit, kl.before_time)
                   [] adapter = TENCENT ->
                         fetch_tencent_kline(kl.raw, kl.limit, kl.before_time)
                   [] adapter = AKSHARE ->
                         fetch_akshare_kline(kl.raw, kl.limit, kl.before_time)
                   [] OTHER ->
                         fetch_yfinance_kline(kl.raw, kl.limit, kl.before_time))]
    /\ UNCHANGED <<now, cb, cbGhosts, mgrVars, dcVars, rlVars, rt, parVars>>

(***************************************************************************)
(* rate_limiter.py: RateLimiter                                            *)
(* Its times are counted in half seconds; time.sleep(x) returns after x.   *)
(***************************************************************************)
MaxWaits == 3          \* wait() calls made in one behaviour

\* the module-level limiters: RateLimiter(min_interval, jitter_min, jitter_max)
eastmoney_limiter == [min_interval |-> 4, jitter_min |-> 2, jitter_max |-> 6]
tencent_limiter == [min_interval |-> 2, jitter_min |-> 1, jitter_max |-> 3]
akshare_limiter == [min_interval |-> 4, jitter_min |-> 3, jitter_max |-> 7]

Limiters == {eastmoney_limiter, tencent_limiter, akshare_limiter}

\* random.uniform(self.jitter_min, self.jitter_max)
Jitters(p) == p.jitter_min..p.jitter_max

\* what the caller does between two wait() calls takes this long
Gaps == {1, 2, 4, 6}

\* RateLimiter.__init__; time is time.time()
NewRateLimiter(p) == [params |-> p, time |-> 0, last_request_time |-> Nothing, calls |-> 0]

\* the first sleep of wait with "wait_time = self.min_interval"
remaining_whole_interval(p, last_request_time, t) ==
    IF last_request_time # Nothing /\ t - last_request_time[1] < p.min_interval
    THEN p.min_interval
    ELSE 0

\* wait without the first sleep
remaining_nothing(p, last_request_time, t) == 0

\* the first sleep of wait: "self.min_interval - elapsed", or none
remaining(p, last_request_time, t) ==
    IF last_request_time # Nothing /\ t - last_request_time[1] < p.min_interval
    THEN p.min_interval - (t - last_request_time[1])
    ELSE 0

\* RateLimiter.wait: the return value
wait_ret(p, last_request_time, t, jitter) == remaining(p, last_request_time, t) + jitter

NoWait == [at |-> 0, prev |-> Nothing, back |-> 0, ret |-> 0, idle |-> FALSE]

\* RateLimiter.wait: the two sleeps, the record of the request time, the return
Wait(jitter) ==
    LET p == rl.params
        slept == remaining(p, rl.last_request_time, rl.time) + jitter IN
    /\ rl.calls < MaxWaits
    /\ rl' = [rl EXCEPT !.time = @ + slept,
                        !.last_request_time = Some(rl.time + slept),
                        !.calls = @ + 1]
    /\ waited' = [at |-> rl.time,
                  prev |-> IF rl.calls > 0 /\ rl.last_request_time # Nothing
                           THEN Some(waited.back) ELSE Nothing,
                  back |-> rl.time + slept,
                  ret |-> wait_ret(p, rl.last_request_time, rl.time, jitter),
                  idle |-> FALSE]
    /\ UNCHANGED <<now, cb, cbGhosts, mgrVars, dcVars, kl, rt, parVars>>

\* RateLimiter.reset
ResetLimiter ==
    /\ rl.last_request_time # Nothing
    /\ rl' = [rl EXCEPT !.last_request_time = Nothing]
    /\ UNCHANGED <<now, waited, cb, cbGhosts, mgrVars, dcVars, kl, rt, parVars>>

\* the caller between two wait() calls
Work(d) ==
    /\ rl.calls > 0
    /\ rl.calls < MaxWaits
    /\ ~waited.idle
    /\ rl' = [rl EXCEPT !.time = @ + d]
    /\ waited' = [waited EXCEPT !.idle = TRUE]
    /\ UNCHANGED <<now, cb, cbGhosts, mgrVars, dcVars, kl, rt, parVars>>

(***************************************************************************)
(* rate_limiter.py: retry_with_backoff                                     *)
(* Delays are counted in tenths of a second.                               *)
(***************************************************************************)
MaxAttempts == 3       \* largest max_attempts argument

\* the decorator's arguments: the defaults, and the tuple of the docstring's example
RetryDefaults ==
    [base_delay |-> 2, max_delay |-> 30, exponential_base |-> 2]
\* base_delay, max_delay, exponential_base as callers can pass them: a cap
\* that the second delay reaches, a constant delay, a base below 1
DelayArgs ==
    {RetryDefaults,
     [base_delay |-> 2, max_delay |-> 3, exponential_base |-> 2],
     [base_delay |-> 3, max_delay |-> 30, exponential_base |-> 1],
     [base_delay |-> 2, max_delay |-> 30, exponential_base |-> 0]}
ExceptionsArgs == {{"Exception"}, {"ConnectionError", "TimeoutError"}}
OnRetryArgs == {Nothing, Some("on_retry")}

\* random.uniform(0.8, 1.2), in tenths
JitterFactors == {8, 10, 12}

\* what the wrapped function and the callback can raise
RaisedTypes == {"ConnectionError", "ValueError"}

RECURSIVE pow(_, _)
pow(b, e) == IF e = 0 THEN 1 ELSE b * pow(b, e - 1)

\* the delay without the min(..., max_delay)
backoff_delay_uncapped(a, attempt) ==
    a.base_delay * pow(a.exponential_base, attempt - 1)

\* min(base_delay * (exponential_base ** (attempt - 1)), max_delay)
backoff_delay(a, attempt) ==
    Min(a.base_delay * pow(a.exponential_base, attempt - 1), a.max_delay)

\* "except Exception as e" whatever the exceptions argument
retryable_any(exceptions, exc) == TRUE

\* "except exceptions as e": every class raised here derives from Exception
retryable(exceptions, exc) == exc.type \in exceptions \/ "Exception" \in exceptions

\* "if attempt >= max_attempts - 1:": the wrapper gives up one attempt early
gives_up_early(attempt, max_attempts) == attempt >= max_attempts - 1

\* a wrapper that backs off after the last attempt too
gives_up_never(attempt, max_attempts) == FALSE

\* "if attempt == max_attempts:"
gives_up(attempt, max_attempts) == attempt = max_attempts

NoRetry ==
    [pc |-> "none", max_attempts |-> 0, args |-> RetryDefaults,
     exceptions |-> {}, on_retry |-> Nothing,
     attempt |-> 0, last_exception |-> Nothing, outcomes |-> <<>>, retries |-> <<>>,
     sleeps |-> <<>>, result |-> [kind |-> "none"]]

\* the wrapper is called: "last_exception = None" and the head of the loop
NewRetry(max_attempts, exceptions, on_retry) ==
    [NoRetry EXCEPT !.pc = "loop", !.max_attempts = max_attempts,
                    !.exceptions = exceptions, !.on_retry = on_retry, !.attempt = 1]

\* what the wrapped function does when invoked for the k-th time
Outcomes(k) == {Returned(k)} \cup {Raised(Exc(ty, k)) : ty \in RaisedTypes}

\* what the callback does
CallbackOutcomes == {Returned(0), Raised(Exc("ValueError", 0))}

\* one iteration of "for attempt in range(1, max_attempts + 1)"
Attempt(out, factor, cbout) ==
    LET r1 == [rt EXCEPT !.outcomes = Append(@, out)]
        delay == backoff_delay(rt.args, rt.attempt) * factor IN
    /\ rt.pc = "loop"
    /\ rt.attempt <= rt.max_attempts
    /\ rt' =
         IF out.kind = "return"
         THEN [r1 EXCEPT !.pc = "done", !.result = out]
         ELSE IF ~retryable(rt.exceptions, out.exc)
         THEN [r1 EXCEPT !.pc = "done", !.result = out]
         ELSE IF gives_up(rt.attempt, rt.max_attempts)
         THEN [r1 EXCEPT !.pc = "done", !.result = out, !.last_exception = Some(out.exc)]
         ELSE IF rt.on_retry # Nothing /\ cbout.kind = "raise"
         THEN [r1 EXCEPT !.pc = "done", !.result = cbout,
                         !.last_exception = Some(out.exc),
                         !.retries = Append(@, <<rt.attempt, out.exc>>)]
         ELSE [r1 EXCEPT !.attempt = @ + 1,
                         !.last_exception = Some(out.exc),
                         !.retries = IF rt.on_retry # Nothing
                                     THEN Append(@, <<rt.attempt, out.exc>>) ELSE @,
                         !.sleeps = Append(@, delay)]
    /\ UNCHANGED <<now, cb, cbGhosts, mgrVars, dcVars, kl, rlVars, parVars>>

\* "raise last_exception" after the loop
LoopEnd ==
    /\ rt.pc = "loop"
    /\ rt.attempt > rt.max_attempts
    /\ rt' = [rt EXCEPT !.pc = "done",
                        !.result = IF rt.last_exception # Nothing
                                   THEN Raised(rt.last_exception[1])
                                   ELSE Raised(Exc("TypeError", 0))]
    /\ UNCHANGED <<now, cb, cbGhosts, mgrVars, dcVars, kl, rlVars, parVars>>

(***************************************************************************)
(* Direct calls on a DataCache                                             *)
(***************************************************************************)
Keys == {"a", "b", "c"}
Values == {1, 2}
TtlArgs == {Nothing, Some(60)}
SmallSizes == {1, 2, 3}
CacheDeltas == {30}                  \* clock advances between direct DataCache calls
CacheStartTimes == {MaxTime - 90}
WarmKeys == {"a"}
WarmValues == {1}

\* DataCache(): the defaults of the constructor
DefaultConf == [default_ttl |-> 600, max_size |-> 1000]

\* a call as the caller sees it: the arguments, the partition it found, the
\* time and the return value
CacheCall(name, key, data, ttl, ret) ==
    [name |-> name, key |-> key, data |-> data, ttl |-> ttl, pre |-> store,
     at |-> now, ret |-> ret]

NoCacheCall ==
    [name |-> "none", key |-> "", data |-> Nothing, ttl |-> Nothing, pre |-> NewCache,
     at |-> 0, ret |-> Nothing]

Counted ==
    /\ nops < MaxOps
    /\ nops' = nops + 1

Get(key) ==
    /\ Counted
    /\ store' = cache_get(store, key, now)
    /\ called' = CacheCall("get", key, Nothing, Nothing, cache_get_ret(store, key, now))
    /\ gets' = gets + 1
    /\ touched' = IF cache_get_ret(store, key, now) # Nothing
                  THEN [touched EXCEPT ![key] = Some(nops + 1)]
                  ELSE touched
    /\ UNCHANGED <<now, conf, kl, cb, cbGhosts, mgrVars, rlVars, rt, parVars>>

Set(key, data, ttl) ==
    /\ Counted
    /\ store' = cache_set(conf, store, key, data, ttl, now)
    /\ called' = CacheCall("set", key, Some(data), ttl, Nothing)
    /\ touched' = IF key \in stored_keys(evict(store.entries, conf.max_size))
                  THEN touched
                  ELSE [touched EXCEPT ![key] = Some(nops + 1)]
    /\ UNCHANGED <<now, conf, gets, kl, cb, cbGhosts, mgrVars, rlVars, rt, parVars>>

Delete(key) ==
    /\ Counted
    /\ store' = cache_delete(store, key)
    /\ called' = CacheCall("delete", key, Nothing, Nothing, cache_delete_ret(store, key))
    /\ UNCHANGED <<now, conf, gets, touched, kl, cb, cbGhosts, mgrVars, rlVars, rt, parVars>>

Clear ==
    /\ Counted
    /\ store' = cache_clear(store)
    /\ called' = CacheCall("clear", "", Nothing, Nothing, cache_clear_ret(store))
    /\ UNCHANGED <<now, conf, gets, touched, kl, cb, cbGhosts, mgrVars, rlVars, rt, parVars>>

CleanupExpired ==
    /\ Counted
    /\ store' = cleanup_expired(store, now)
    /\ called' = CacheCall("cleanup_expired", "", Nothing, Nothing, cleanup_expired_ret(store, now))
    /\ UNCHANGED <<now, conf, gets, touched, kl, cb, cbGhosts, mgrVars, rlVars, rt, parVars>>

Stats ==
    /\ Counted
    /\ called' = CacheCall("stats", "", Nothing, Nothing, stats(conf, store))
    /\ UNCHANGED <<now, conf, store, gets, touched, kl, cb, cbGhosts, mgrVars, rlVars, rt, parVars>>

\* the clock between two direct DataCache calls
Pass ==
    /\ now' \in {now + d : d \in CacheDeltas}
    /\ now' <= MaxTime
    /\ called' = NoCacheCall
    /\ UNCHANGED <<conf, store, gets, touched, nops, kl, cb, cbGhosts, mgrVars, rlVars, rt, parVars>>

\* no DataCache, no adapter and no RateLimiter is called directly
\* no thread is inside a call made from several threads
NoThreads ==
    /\ thr = <<>>
    /\ hist = <<>>

NothingCalledDirectly ==
    /\ NoThreads
    /\ kl = NoFetch
    /\ rl = NewRateLimiter(eastmoney_limiter)
    /\ waited = NoWait
    /\ rt = NoRetry
    /\ conf = DefaultConf
    /\ store = NewCache
    /\ called = NoCacheCall
    /\ gets = 0
    /\ touched = [k \in Keys |-> Nothing]
    /\ nops = 0

Init ==
    /\ NothingCalledDirectly
    /\ now \in StartTimes
    /\ cb = [b \in Breakers |-> <<>>]
    /\ last = NoCall
    /\ consec = [b \in Breakers |-> [s \in CBSources |-> 0]]
    /\ probeFailAt = [b \in Breakers |-> [s \in CBSources |-> {}]]
    /\ grants = [b \in Breakers |-> [s \in CBSources |-> 0]]
    /\ cache = [c \in Partitions |-> NewCache]
    /\ has_akshare \in BOOLEAN
    /\ req = [t \in Threads |-> IdleRequest]
    /\ nreq = 0

\* a behaviour of SpecCB drives one of the two breaker instances
Driven(b) == \A o \in Breakers \ {b} : cb[o] = <<>>

NextCB ==
    \/ \E b \in Breakers, s \in CBSources : Driven(b) /\ IsAvailable(b, s)
    \/ \E b \in Breakers, s \in CBSources : Driven(b) /\ RecordSuccess(b, s)
    \/ \E b \in Breakers, s \in CBSources, e \in ErrorArgs :
          Driven(b) /\ RecordFailure(b, s, e)
    \/ Tick

SpecCB == Init /\ [][NextCB]_vars

\* Manager requests, one at a time, on one of the two APIs (they share no
\* breaker and no cache partition); the clock advances between requests
Next ==
    \/ \E t \in Threads, sy \in Symbols, tf \in Timeframes, li \in Limits,
          bt \in BeforeTimes, uc \in BOOLEAN :
             Driven("ashare") /\ get_kline(t, sy, tf, li, bt, uc)
    \/ \E t \in Threads, sy \in Symbols, uc \in BOOLEAN :
          Driven("realtime") /\ get_realtime_quote(t, sy, uc)
    \/ \E t \in Threads : Walk(t)
    \/ \E t \in Threads : FetchReturn(t)
    \/ \E t \in Threads : Finish(t)
    \/ Elapse

\* The breaker of one API after failure_threshold - 1 requests made with
\* use_cache = False at process start in which every adapter that was called
\* raised: each source is CLOSED, one failure short of opening (akshare, when
\* it is not installed, was looked up by is_available and then skipped).
Strained(api) ==
    LET b == BreakerOf(api)
        srcs == SourcesOf(api) IN
    [s \in {srcs[i] : i \in 1..Len(srcs)} |->
        IF s = AKSHARE /\ ~has_akshare THEN NewSourceState
        ELSE [NewSourceState EXCEPT !.failures = Params(b).failure_threshold - 1,
                                    !.last_failure_time = now,
                                    !.last_error =
                                        (CHOOSE e \in UpstreamErrors(s) : TRUE).msg]]

\* the states the Manager serves requests from: fresh after construction, or
\* with the breaker of one API strained
InitServing ==
    /\ NothingCalledDirectly
    /\ now \in StartTimes
    /\ has_akshare \in BOOLEAN
    /\ \/ cb = [b \in Breakers |-> <<>>]
       \/ \E api \in Apis :
             cb = [b \in Breakers |-> IF b = BreakerOf(api) THEN Strained(api) ELSE <<>>]
    /\ last = NoCall
    /\ consec = [b \in Breakers |-> [s \in CBSources |-> 0]]
    /\ probeFailAt = [b \in Breakers |-> [s \in CBSources |-> {}]]
    /\ grants = [b \in Breakers |-> [s \in CBSources |-> 0]]
    /\ cache = [c \in Partitions |-> NewCache]
    /\ req = [t \in Threads |-> IdleRequest]
    /\ nreq = 0

Spec == InitServing /\ [][Next]_vars

\* a DataCache built with a small max_size and called directly, from its
\* construction or from the state its first call, a set, left
InitCache ==
    /\ now \in CacheStartTimes
    /\ cb = [b \in Breakers |-> <<>>]
    /\ last = NoCall
    /\ consec = [b \in Breakers |-> [s \in CBSources |-> 0]]
    /\ probeFailAt = [b \in Breakers |-> [s \in CBSources |-> {}]]
    /\ grants = [b \in Breakers |-> [s \in CBSources |-> 0]]
    /\ cache = [c \in Partitions |-> NewCache]
    /\ has_akshare = FALSE
    /\ req = [t \in Threads |-> IdleRequest]
    /\ nreq = 0
    /\ NoThreads
    /\ kl = NoFetch
    /\ rl = NewRateLimiter(eastmoney_limiter)
    /\ waited = NoWait
    /\ rt = NoRetry
    /\ conf \in {[DefaultConf EXCEPT !.max_size = n] : n \in SmallSizes}
    /\ \/ /\ store = NewCache
          /\ called = NoCacheCall
          /\ touched = [k \in Keys |-> Nothing]
       \/ \E k \in WarmKeys, v \in WarmValues :
             /\ store = cache_set(conf, NewCache, k, v, Nothing, now)
             /\ called = [NoCacheCall EXCEPT !.name = "set", !.key = k,
                                             !.data = Some(v), !.at = now]
             /\ touched = [j \in Keys |-> IF j = k THEN Some(0) ELSE Nothing]
    /\ gets = 0
    /\ nops = 0

\* one adapter call: its arguments and the upstream answer
InitKline ==
    /\ now \in StartTimes
    /\ cb = [b \in Breakers |-> <<>>]
    /\ last = NoCall
    /\ consec = [b \in Breakers |-> [s \in CBSources |-> 0]]
    /\ probeFailAt = [b \in Breakers |-> [s \in CBSources |-> {}]]
    /\ grants = [b \in Breakers |-> [s \in CBSources |-> 0]]
    /\ cache = [c \in Partitions |-> NewCache]
    /\ has_akshare = TRUE
    /\ req = [t \in Threads |-> IdleRequest]
    /\ nreq = 0
    /\ NoThreads
    /\ conf = DefaultConf
    /\ store = NewCache
    /\ called = NoCacheCall
    /\ gets = 0
    /\ touched = [k \in Keys |-> Nothing]
    /\ nops = 0
    /\ rl = NewRateLimiter(eastmoney_limiter)
    /\ waited = NoWait
    /\ rt = NoRetry
    /\ kl \in [adapter : {EASTMONEY, TENCENT, AKSHARE, YFINANCE}, raw : RawAnswers,
                limit : LimitArgs, before_time : BeforeTimeArgs, out : {Nothing}]

NextKline ==
    \/ FetchKline(EASTMONEY)
    \/ FetchKline(TENCENT)
    \/ FetchKline(AKSHARE)
    \/ FetchKline(YFINANCE)

SpecKline == InitKline /\ [][NextKline]_vars

\* one of the module's limiters, used by one thread
InitLimiter ==
    /\ now \in StartTimes
    /\ cb = [b \in Breakers |-> <<>>]
    /\ last = NoCall
    /\ consec = [b \in Breakers |-> [s \in CBSources |-> 0]]
    /\ probeFailAt = [b \in Breakers |-> [s \in CBSources |-> {}]]
    /\ grants = [b \in Breakers |-> [s \in CBSources |-> 0]]
    /\ cache = [c \in Partitions |-> NewCache]
    /\ has_akshare = TRUE
    /\ req = [t \in Threads |-> IdleRequest]
    /\ nreq = 0
    /\ NoThreads
    /\ conf = DefaultConf
    /\ store = NewCache
    /\ called = NoCacheCall
    /\ gets = 0
    /\ touched = [k \in Keys |-> Nothing]
    /\ nops = 0
    /\ kl = NoFetch
    /\ rl \in {NewRateLimiter(p) : p \in Limiters}
    /\ waited = NoWait
    /\ rt = NoRetry

NextLimiter ==
    \/ \E j \in Jitters(rl.params) : Wait(j)
    \/ ResetLimiter
    \/ \E d \in Gaps : Work(d)

SpecLimiter == InitLimiter /\ [][NextLimiter]_vars

\* one call of a wrapped function
InitRetry ==
    /\ now \in StartTimes
    /\ cb = [b \in Breakers |-> <<>>]
    /\ last = NoCall
    /\ consec = [b \in Breakers |-> [s \in CBSources |-> 0]]
    /\ probeFailAt = [b \in Breakers |-> [s \in CBSources |-> {}]]
    /\ grants = [b \in Breakers |-> [s \in CBSources |-> 0]]
    /\ cache = [c \in Partitions |-> NewCache]
    /\ has_akshare = TRUE
    /\ req = [t \in Threads |-> IdleRequest]
    /\ nreq = 0
    /\ NoThreads
    /\ conf = DefaultConf
    /\ store = NewCache
    /\ called = NoCacheCall
    /\ gets = 0
    /\ touched = [k \in Keys |-> Nothing]
    /\ nops = 0
    /\ kl = NoFetch
    /\ rl = NewRateLimiter(eastmoney_limiter)
    /\ waited = NoWait
    /\ rt \in {[NewRetry(n, ex, cb_) EXCEPT !.args = a] :
                 a \in DelayArgs, n \in 0..MaxAttempts, ex \in ExceptionsArgs,
                                       cb_ \in OnRetryArgs}

NextRetry ==
    \/ \E out \in Outcomes(Len(rt.outcomes) + 1), f \in JitterFactors,
          cbout \in CallbackOutcomes : Attempt(out, f, cbout)
    \/ LoopEnd

SpecRetry == InitRetry /\ [][NextRetry]_vars

NextCache ==
    \/ \E k \in Keys : Get(k)
    \/ \E k \in Keys, v \in Values, ttl \in TtlArgs : Set(k, v, ttl)
    \/ \E k \in Keys : Delete(k)
    \/ Clear
    \/ CleanupExpired
    \/ Stats
    \/ Pass

SpecCache == InitCache /\ [][NextCache]_vars

(***************************************************************************)
(* Properties of the circuit breaker (SpecCB)                              *)
(***************************************************************************)
LastIs(op) == last.op = op
LastParams == Params(last.br)
LastState == cb[last.br][last.src]
LastConsec == consec[last.br][last.src]

\* C1: once failure_threshold record_failure calls were made with no
\* record_success in between, is_available returns False while less than
\* cooldown_seconds passed since the last of them; with fewer than
\* failure_threshold such calls it returns True.
C1_ThresholdFlipsAvailability ==
    LastIs("is_available") =>
        /\ (/\ LastConsec >= LastParams.failure_threshold
            /\ last.at - LastState.last_failure_time < LastParams.cooldown_seconds)
           => ~last.res
        /\ LastConsec < LastParams.failure_threshold => last.res

C1_Witness ==
    /\ LastIs("is_available")
    /\ LastConsec = LastParams.failure_threshold
    /\ last.pre = OPEN
    /\ ~last.res

\* C2: after the cooldown, is_available returns True at most
\* half_open_max_calls times before an outcome is recorded.
C2_ProbesAreLimited ==
    \A b \in Breakers, s \in CBSources :
        grants[b][s] <= Params(b).half_open_max_calls

\* C3: record_failure in HALF_OPEN leaves the source OPEN, and is_available
\* returns False on every call made less than cooldown_seconds after that
\* failure.
C3_ProbeFailureReopens ==
    /\ (LastIs("record_failure") /\ last.pre = HALF_OPEN) => LastState.state = OPEN
    /\ \A t \in probeFailAt[last.br][last.src] :
          (LastIs("is_available") /\ last.at - t < LastParams.cooldown_seconds)
          => ~last.res

C3_Witness ==
    /\ LastIs("is_available")
    /\ \E t \in probeFailAt[last.br][last.src] :
          last.at - t = LastParams.cooldown_seconds - 60
    /\ LastState.failures = LastParams.failure_threshold + 1
    /\ ~last.res

\* C4: record_success from any state leaves the source CLOSED with
\* failures = 0, half_open_calls = 0 and last_error = None, and an
\* is_available call that follows it returns True.
C4_SuccessAlwaysCloses ==
    LastIs("record_success") =>
        /\ LastState.state = CLOSED
        /\ LastState.failures = 0
        /\ LastState.half_open_calls = 0
        /\ LastState.last_error = None
        /\ is_available_ret(LastParams, cb[last.br], last.src, now)

C4_Witness ==
    /\ LastIs("record_success")
    /\ last.pre = OPEN
    /\ LastState.state = CLOSED

(***************************************************************************)
(* Properties of the Manager's provider walk (Spec)                        *)
(***************************************************************************)
\* the documented priority order of each API
PriorityOrder(api) ==
    IF api = "get_kline" THEN <<"eastmoney", "tencent", "akshare", "yfinance">>
    ELSE <<"eastmoney", "tencent", "akshare">>

Walked(r) == [i \in 1..Len(r.log) |-> r.log[i].src]

InOrder(r) ==
    /\ Len(r.log) <= Len(PriorityOrder(r.api))
    /\ Walked(r) = SubSeq(PriorityOrder(r.api), 1, Len(r.log))

Invoked(e) == e.outcome \in {"pending", "success", "passed", "raised"}

NonEmpty(api, v) == IF api = "get_kline" THEN v # <<>> ELSE DOMAIN v # {}

Usable(api, v) ==
    IF api = "get_kline" THEN v # <<>>
    ELSE "last" \in DOMAIN v /\ v["last"] > 0

ReturnedNonEmpty(api, e) == e.value # Nothing /\ NonEmpty(api, e.value[1])
ReturnedUsable(api, e) == e.value # Nothing /\ Usable(api, e.value[1])

WonByProvider(r) ==
    /\ r.pc = "done"
    /\ r.ret.kind = "return"
    /\ r.ret.source \notin {"", "cache"}

\* the walk goes down the priority list without gaps, and nothing is
\* reached after the provider that won
OrderedWalk(r) ==
    /\ InOrder(r)
    /\ r.pc = "done" => \A i \in 1..(Len(r.log) - 1) : r.log[i].outcome # "success"
    /\ WonByProvider(r) =>
          /\ r.log # <<>>
          /\ r.log[Len(r.log)].src = r.ret.source
          /\ r.log[Len(r.log)].outcome = "success"
          /\ r.log[Len(r.log)].avail

\* C5 as stated: the winner is the first eligible provider that returned a
\* non-empty result; every provider before it was skipped, returned empty
\* or raised.
C5_FirstNonEmptyWins ==
    \A t \in Threads :
        LET r == req[t] IN
        /\ OrderedWalk(r)
        /\ WonByProvider(r) =>
              /\ ReturnedNonEmpty(r.api, r.log[Len(r.log)])
              /\ \A i \in 1..(Len(r.log) - 1) :
                    \/ r.log[i].outcome \in {"skipped", "raised"}
                    \/ r.log[i].outcome = "passed" /\ ~ReturnedNonEmpty(r.api, r.log[i])

\* C5 (amended): providers are tried in the fixed priority order, the winner
\* is the first eligible provider that returned a usable result (a non-empty
\* kline list, a quote with last > 0); every provider before it was skipped,
\* returned a result that is not usable or raised, and no provider after it
\* is reached.
C5_FirstUsableWins ==
    \A t \in Threads :
        LET r == req[t] IN
        /\ OrderedWalk(r)
        /\ WonByProvider(r) =>
              /\ ReturnedUsable(r.api, r.log[Len(r.log)])
              /\ \A i \in 1..(Len(r.log) - 1) :
                    \/ r.log[i].outcome \in {"skipped", "raised"}
                    \/ r.log[i].outcome = "passed" /\ ~ReturnedUsable(r.api, r.log[i])

C5_Witness ==
    \E t \in Threads :
        LET r == req[t] IN
        /\ WonByProvider(r)
        /\ r.api = "get_realtime_quote"
        /\ r.ret.source = AKSHARE
        /\ r.log[1].outcome = "raised"
        /\ r.log[2].outcome = "passed"
        /\ ReturnedNonEmpty(r.api, r.log[2])

\* C6: a provider for which is_available returned False is not invoked in
\* that request; a get_kline that finds every provider OPEN and within its
\* cooldown returns ([], "") and invokes no adapter.
AllOpen(r) ==
    /\ Len(r.log) = Len(PriorityOrder(r.api))
    /\ \A i \in 1..Len(r.log) :
          /\ r.log[i].pre = OPEN
          /\ r.log[i].waited < Params(BreakerOf(r.api)).cooldown_seconds

C6_UnavailableNeverInvoked ==
    \A t \in Threads :
        LET r == req[t] IN
        /\ \A i \in 1..Len(r.log) : ~r.log[i].avail => ~Invoked(r.log[i])
        /\ \A i \in 1..Len(r.log) :
              (/\ r.log[i].pre = OPEN
               /\ r.log[i].waited < Params(BreakerOf(r.api)).cooldown_seconds)
              => ~Invoked(r.log[i])
        /\ (r.pc = "done" /\ r.api = "get_kline" /\ AllOpen(r)) =>
              /\ r.ret = Return(<<>>, "")
              /\ \A i \in 1..Len(r.log) : ~Invoked(r.log[i])

C6_Witness ==
    \E t \in Threads :
        LET r == req[t] IN
        /\ r.pc = "done"
        /\ r.api = "get_kline"
        /\ AllOpen(r)
        /\ r.ret = Return(<<>>, "")

\* C7: whatever the providers do, a request ends by returning a
\* (result, source_name) pair; no exception leaves get_kline or
\* get_realtime_quote.
C7_NoExceptionEscapes ==
    \A t \in Threads :
        LET r == req[t] IN
        /\ r.ret.kind # "raise"
        /\ r.pc = "done" =>
              /\ r.ret.kind = "return"
              /\ r.ret.source \in {"", "cache"} \cup
                    {PriorityOrder(r.api)[i] : i \in 1..Len(PriorityOrder(r.api))}

C7_Witness ==
    \E t \in Threads :
        LET r == req[t] IN
        /\ r.pc = "done"
        /\ r.ret.kind = "return"
        /\ \E i, j, k \in 1..Len(r.log) :
              /\ r.log[i].outcome = "raised"
              /\ r.log[j].outcome = "passed"
              /\ r.log[k].outcome = "success"
              /\ r.log[i].err # "HTTP 500"

\* C8: an adapter that raises gets exactly one record_failure, for its own
\* source, with the exception's string: failures grows by 1, last_error is
\* that string, no other source changes; the walk goes on with the next
\* provider and reaches no provider twice.
C8_RaiseRecordedOnce ==
    \A t \in Threads :
        LET r == req[t] IN
        /\ \A i \in 1..Len(r.log) :
              r.log[i].outcome = "raised" =>
                 /\ r.log[i].fAfter = r.log[i].fBefore + 1
                 /\ r.log[i].errAfter = r.log[i].err
                 /\ r.log[i].err # None
                 /\ r.log[i].others
                 /\ r.pc # "done" => r.i > i
                 /\ (r.pc = "done" /\ i = Len(r.log)) =>
                       /\ i = Len(PriorityOrder(r.api))
                       /\ r.ret.source = ""
        /\ \A i, j \in 1..Len(r.log) : r.log[i].src = r.log[j].src => i = j
        /\ InOrder(r)

C8_Witness ==
    \E t \in Threads :
        LET r == req[t] IN
        /\ Len(r.log) >= 2
        /\ r.log[1].outcome = "raised"
        /\ r.log[1].fBefore >= 1
        /\ r.log[1].errAfter = "HTTP 500"
        /\ r.log[2].src = TENCENT
        /\ Invoked(r.log[2])

\* C9: get_kline returns ([], "") exactly when the cache did not answer and
\* every provider was skipped, raised or returned empty; otherwise the list
\* and the source tag are both non-empty.  The kline cache never holds an
\* empty list.
Exhausted(r) ==
    /\ Len(r.log) = Len(PriorityOrder(r.api))
    /\ \A i \in 1..Len(r.log) :
          \/ r.log[i].outcome \in {"skipped", "raised"}
          \/ r.log[i].outcome = "passed" /\ r.log[i].value = Some(<<>>)

C9_EmptyOnlyOnExhaustion ==
    /\ \A t \in Threads :
          LET r == req[t] IN
          (r.pc = "done" /\ r.api = "get_kline" /\ r.ret.kind = "return") =>
             /\ r.ret = Return(<<>>, "") <=> (r.ret.source # "cache" /\ Exhausted(r))
             /\ r.ret # Return(<<>>, "") =>
                   /\ r.ret.data # <<>>
                   /\ r.ret.source \in {"cache", EASTMONEY, TENCENT, AKSHARE, YFINANCE}
    /\ \A i \in 1..Len(cache["kline"].entries) : cache["kline"].entries[i].data # <<>>

C9_Witness ==
    \E t \in Threads :
        LET r == req[t] IN
        /\ r.pc = "done"
        /\ r.api = "get_kline"
        /\ r.ret = Return(<<>>, "")
        /\ r.use_cache
        /\ \E i, j, k \in 1..Len(r.log) :
              /\ r.log[i].outcome = "raised"
              /\ r.log[j].outcome = "passed"
              /\ r.log[k].outcome = "skipped"

\* C10: get_kline with use_cache = True that finds an entry for its key
\* younger than the entry's ttl returns (the entry's data, "cache") in that
\* step: no breaker call, no adapter call, the breakers unchanged.
EntriesOf(part) == {cache[part].entries[i] : i \in 1..Len(cache[part].entries)}

FreshData(part, key) ==
    {e.data : e \in {x \in EntriesOf(part) : x.key = key /\ now - x.timestamp < x.ttl}}

\* "{symbol}:{timeframe}:{limit}[:{before_time}]"
KlineKey(r) ==
    <<r.symbol, r.timeframe, r.limit>> \o
        (IF r.before_time # Nothing /\ r.before_time # <<0>> THEN r.before_time ELSE <<>>)

C10_CacheHitTouchesNoBreaker ==
    [][\A t \in Threads :
          (/\ req[t].pc = "idle"
           /\ req'[t].pc # "idle"
           /\ req'[t].api = "get_kline"
           /\ req'[t].use_cache
           /\ FreshData("kline", KlineKey(req'[t])) # {})
          => /\ req'[t].pc = "done"
             /\ req'[t].ret.kind = "return"
             /\ req'[t].ret.source = "cache"
             /\ req'[t].ret.data \in
                   FreshData("kline", KlineKey(req'[t]))
             /\ req'[t].log = <<>>
             /\ cb' = cb]_vars

C10_Witness ==
    \E t \in Threads :
        LET r == req[t] IN
        /\ r.pc = "done"
        /\ r.api = "get_kline"
        /\ r.ret = Return(<<100, 200>>, "cache")
        /\ r.log = <<>>
        /\ cache["kline"].hits = 1

\* C11: when a provider returns a non-empty list to get_kline with
\* use_cache = True, on return that source is CLOSED with failures = 0 and
\* the kline cache holds exactly that list under the request's key; a
\* get_kline with use_cache = True for a key whose entry is still stored and
\* younger than its ttl returns the stored list tagged "cache" and reaches no
\* provider.
StoredUnder(part, key) == {e \in EntriesOf(part) : e.key = key}

ProviderAnswered(r) ==
    /\ r.api = "get_kline"
    /\ r.use_cache
    /\ WonByProvider(r)

C11_SuccessClosesAndCaches ==
    /\ [](\A t \in Threads :
            LET r == req[t] IN
            ProviderAnswered(r) =>
               /\ r.ret.data # <<>>
               /\ r.ret.data = r.log[Len(r.log)].value[1]
               /\ StateOf("ashare", r.ret.source) = CLOSED
               /\ FailuresOf("ashare", r.ret.source) = 0
               /\ {e.data : e \in StoredUnder("kline", KlineKey(r))} = {r.ret.data})
    /\ [][\A t \in Threads :
            \A e \in StoredUnder("kline", KlineKey(req'[t])) :
               (/\ req[t].pc = "idle"
                /\ req'[t].pc # "idle"
                /\ req'[t].api = "get_kline"
                /\ req'[t].use_cache
                /\ now - e.timestamp < e.ttl)
               => /\ req'[t].pc = "done"
                  /\ req'[t].ret = Return(e.data, "cache")
                  /\ req'[t].log = <<>>]_vars

\* the second of two identical requests is answered from the cache after the
\* first closed a source that had failures
C11_Witness ==
    \E t \in Threads :
        LET r == req[t] IN
        /\ r.pc = "done"
        /\ r.api = "get_kline"
        /\ r.ret = Return(<<100, 200>>, "cache")
        /\ nreq = 2
        /\ \E s \in DOMAIN cb["ashare"] :
              /\ cb["ashare"][s].state = CLOSED
              /\ cb["ashare"][s].failures = 0
              /\ cb["ashare"][s].last_failure_time > 0
        /\ \E e \in StoredUnder("kline", KlineKey(r)) : e.data = r.ret.data

\* C21: get_realtime_quote takes a provider's quote as a success only when
\* its last is > 0.  A quote that is empty or has last <= 0 is not returned
\* and not cached, no record_success follows it and the next provider is
\* tried; a successful quote is cached under "quote:{symbol}" with ttl 60,
\* not the partition's default of 1200.
LastEntry(r) == r.log[Len(r.log)]

AdapterReturned(t) ==
    /\ req[t].pc = "fetch"
    /\ req'[t].api = "get_realtime_quote"
    /\ LastEntry(req'[t]).value # Nothing

C21_QuoteNeedsPositiveLast ==
    /\ [](\A t \in Threads :
            LET r == req[t] IN
            r.api = "get_realtime_quote" =>
               /\ \A i \in 1..Len(r.log) :
                     r.log[i].value # Nothing =>
                        (r.log[i].outcome = "success" <=> ReturnedUsable(r.api, r.log[i]))
               /\ (r.pc = "done" /\ r.ret.kind = "return" /\ r.ret.source # "cache") =>
                     \A i \in 1..Len(r.log) :
                        (r.log[i].value # Nothing /\ ~ReturnedUsable(r.api, r.log[i]))
                        => r.ret.data # r.log[i].value[1]
               /\ (WonByProvider(r) /\ r.use_cache) =>
                     \E e \in StoredUnder("realtime", <<"quote", r.symbol>>) :
                        /\ e.data = r.ret.data
                        /\ e.ttl = 60
                        /\ e.ttl # ashare_realtime_cache.default_ttl)
    /\ [](\A e \in EntriesOf("realtime") :
            /\ "last" \in DOMAIN e.data
            /\ e.data["last"] > 0
            /\ e.ttl = 60)
    /\ [][\A t \in Threads :
            (AdapterReturned(t) /\ ~ReturnedUsable("get_realtime_quote", LastEntry(req'[t])))
            => /\ cb' = cb
               /\ cache' = cache
               /\ req'[t].pc = "walk"
               /\ req'[t].i = req[t].i + 1]_vars

C21_Witness ==
    \E t \in Threads :
        LET r == req[t] IN
        /\ r.pc = "done"
        /\ r.api = "get_realtime_quote"
        /\ r.use_cache
        /\ Len(r.log) = 3
        /\ r.log[1].value = Some(EmptyQuote)
        /\ r.log[2].value = Some(Quote(0))
        /\ r.ret = Return(Quote(10), AKSHARE)
        /\ \E e \in StoredUnder("realtime", <<"quote", r.symbol>>) : e.ttl = 60

(***************************************************************************)
(* Properties of a DataCache called directly (SpecCache)                   *)
(***************************************************************************)
CalledIs(name) == called.name = name

KeysOf(dc) == stored_keys(dc.entries)

EntryOf(dc, key) == dc.entries[IndexOf(dc.entries, key)]

\* C12: after any sequence of get, set, delete, clear and cleanup_expired on
\* a partition with max_size >= 1, it stores at most max_size entries (and
\* each key once).
C12_SizeWithinMaxSize ==
    /\ conf.max_size >= 1
    /\ Len(store.entries) <= conf.max_size
    /\ Cardinality(KeysOf(store)) = Len(store.entries)

C12_Witness ==
    /\ CalledIs("set")
    /\ conf.max_size = 2
    /\ Len(called.pre.entries) = conf.max_size
    /\ called.key \notin KeysOf(called.pre)
    /\ Len(store.entries) = conf.max_size

\* C13: set of a key that is not stored, on a partition holding max_size
\* entries, evicts exactly one entry, the one whose last access (the call
\* that inserted it or the latest get that hit it) is the oldest; every
\* other entry stays as it was.
InsertedIntoFull ==
    /\ CalledIs("set")
    /\ called.key \notin KeysOf(called.pre)
    /\ Len(called.pre.entries) = conf.max_size

Victims == KeysOf(called.pre) \ KeysOf(store)

C13_LeastRecentlyAccessedEvicted ==
    InsertedIntoFull =>
        /\ Cardinality(Victims) = 1
        /\ \A v \in Victims, k \in KeysOf(called.pre) : touched[v][1] <= touched[k][1]
        /\ KeysOf(store) = (KeysOf(called.pre) \ Victims) \cup {called.key}
        /\ \A k \in KeysOf(called.pre) \ Victims :
              EntryOf(store, k) = EntryOf(called.pre, k)

\* set("a"); set("b"); get("a"); set("c") with max_size = 2: b is the victim
C13_Witness ==
    /\ InsertedIntoFull
    /\ conf.max_size = 2
    /\ nops = 3
    /\ called.key = "c"
    /\ touched = [k \in Keys |-> CASE k = "a" -> Some(2) [] k = "b" -> Some(1)
                                     [] OTHER -> Some(3)]
    /\ KeysOf(store) = {"a", "c"}

\* C14: set on a key that is stored makes it the most recently used entry
\* (the last one the capacity loop would reach) and resets its timestamp to
\* the time of the call, in a full partition or not.
Reset ==
    /\ CalledIs("set")
    /\ called.key \in KeysOf(called.pre)

MostRecentlyUsed(dc) == dc.entries[Len(dc.entries)].key

C14_ResetMakesMostRecent ==
    Reset =>
        /\ called.key \in KeysOf(store)
        /\ MostRecentlyUsed(store) = called.key
        /\ EntryOf(store, called.key).timestamp = called.at

\* C15: after set(key, v) on a key that is stored, the key is stored with
\* value v, whatever the occupancy (also full with that key least recently
\* used).
C15_ResetKeepsKey ==
    Reset =>
        /\ called.key \in KeysOf(store)
        /\ EntryOf(store, called.key).data = called.data[1]
        /\ cache_get_ret(store, called.key, called.at) = called.data

C15_Witness ==
    /\ Reset
    /\ conf.max_size = 2
    /\ Len(called.pre.entries) = conf.max_size
    /\ called.pre.entries[1].key = called.key
    /\ called.pre.entries[1].data # called.data[1]
    /\ EntryOf(store, called.key).data = called.data[1]

\* C16: get on a key stored with ttl = T at t0 returns the stored data at
\* any time t with t - t0 < T and None at any time t with t - t0 > T; what
\* get returns is never older than its ttl.
Age(e) == called.at - e.timestamp

Found == {e \in {called.pre.entries[i] : i \in 1..Len(called.pre.entries)} :
             e.key = called.key}

C16_TtlDecidesHit ==
    CalledIs("get") =>
        /\ \A e \in Found :
              /\ Age(e) < e.ttl => called.ret = Some(e.data)
              /\ Age(e) > e.ttl => called.ret = Nothing
        /\ called.ret # Nothing =>
              \E e \in Found : called.ret = Some(e.data) /\ Age(e) <= e.ttl

C16_Witness ==
    /\ CalledIs("get")
    /\ \E e \in Found : e.ttl = 60 /\ Age(e) = 90
    /\ called.ret = Nothing
    /\ called.key \notin KeysOf(store)

\* C17: every get increments exactly one of hits and misses.  On a key that
\* is absent or expired it returns None and increments misses, removing the
\* expired entry; on a fresh key it returns the data, increments hits and
\* the entry's hit_count and moves the entry to most recently used.
\* hits + misses is the number of get calls; no other operation changes
\* either counter.
Others(dc) == SelectSeq(dc.entries, LAMBDA e : e.key # called.key)

MissOutcome ==
    /\ called.ret = Nothing
    /\ store.misses = called.pre.misses + 1
    /\ store.hits = called.pre.hits
    /\ store.entries = Others(called.pre)

HitOutcome(e) ==
    /\ called.ret = Some(e.data)
    /\ store.hits = called.pre.hits + 1
    /\ store.misses = called.pre.misses
    /\ store.entries =
          Append(Others(called.pre), [e EXCEPT !.hit_count = e.hit_count + 1])

C17_GetCountsOnce ==
    /\ store.hits + store.misses = gets
    /\ CalledIs("get") =>
          /\ Found = {} => MissOutcome /\ store.entries = called.pre.entries
          /\ \A e \in Found :
                /\ Age(e) > e.ttl => MissOutcome
                /\ Age(e) < e.ttl => HitOutcome(e)
                /\ MissOutcome \/ HitOutcome(e)
    /\ called.name \in {"set", "delete", "clear", "cleanup_expired", "stats"} =>
          /\ store.hits = called.pre.hits
          /\ store.misses = called.pre.misses

C17_Witness ==
    /\ CalledIs("get")
    /\ called.ret # Nothing
    /\ Len(called.pre.entries) = 2
    /\ called.pre.entries[1].key = called.key
    /\ MostRecentlyUsed(store) = called.key
    /\ store.hits = 1
    /\ store.misses = 1

(***************************************************************************)
(* Properties of the kline adapters (SpecKline)                            *)
(***************************************************************************)
\* the candles of the upstream answer the adapter can read, by their time
MinFields(adapter) == IF adapter = EASTMONEY THEN 6 ELSE IF adapter = TENCENT THEN 5 ELSE 0

Readable ==
    {kl.raw[i].day * 86400 : i \in {j \in 1..Len(kl.raw) :
                                       kl.raw[j].fields >= MinFields(kl.adapter)}}

Qualifying ==
    IF kl.before_time = Nothing THEN Readable
    ELSE {x \in Readable : x < kl.before_time[1]}

MostRecent(n) == {x \in Qualifying : Cardinality({y \in Qualifying : y > x}) < n}

Ascending(klines) == \A i, j \in 1..Len(klines) : i < j => klines[i] < klines[j]

TimesOf(klines) == {klines[i] : i \in 1..Len(klines)}

\* C18: whatever the upstream answers, every adapter returns klines in
\* ascending time order, only klines with time < before_time when
\* before_time is given, and the limit most recent of the qualifying ones
\* when more than limit qualify.
C18_AdaptersNormalize ==
    kl.out # Nothing =>
        LET out == kl.out[1] IN
        /\ Ascending(out)
        /\ kl.before_time # Nothing => \A i \in 1..Len(out) : out[i] < kl.before_time[1]
        /\ TimesOf(out) \subseteq Qualifying
        /\ Cardinality(Qualifying) > kl.limit =>
              /\ Len(out) = kl.limit
              /\ TimesOf(out) = MostRecent(kl.limit)

(***************************************************************************)
(* Properties of a RateLimiter used by one thread (SpecLimiter)            *)
(***************************************************************************)
Blocked == waited.back - waited.at

Max(a, b) == IF a > b THEN a ELSE b

\* C19: a wait() called elapsed < min_interval after the request time the
\* previous wait() recorded blocks for at least (min_interval - elapsed) +
\* jitter_min; every wait() blocks for at least jitter_min and at most
\* max(0, min_interval - elapsed) + jitter_max (jitter_max when no request
\* time is recorded), and returns the time it slept.
C19_WaitBlocksWithinBounds ==
    rl.calls > 0 =>
        LET p == rl.params IN
        /\ Blocked >= p.jitter_min
        /\ waited.ret = Blocked
        /\ waited.prev = Nothing => Blocked <= p.jitter_max
        /\ waited.prev # Nothing =>
              LET elapsed == waited.at - waited.prev[1] IN
              /\ elapsed < p.min_interval =>
                    Blocked >= (p.min_interval - elapsed) + p.jitter_min
              /\ Blocked <= Max(0, p.min_interval - elapsed) + p.jitter_max

C19_Witness ==
    /\ rl.calls = 2
    /\ rl.params = eastmoney_limiter
    /\ waited.prev # Nothing
    /\ waited.at - waited.prev[1] = 1
    /\ Blocked = 3 + rl.params.jitter_max
    /\ ~waited.idle

(***************************************************************************)
(* Properties of retry_with_backoff (SpecRetry)                            *)
(***************************************************************************)
Invocations == Len(rt.outcomes)

RaisedRetryable(k) ==
    /\ rt.outcomes[k].kind = "raise"
    /\ \/ rt.outcomes[k].exc.type \in rt.exceptions
       \/ "Exception" \in rt.exceptions

\* C20: with max_attempts = n >= 1 the wrapped function is invoked at most n
\* times; the wrapper returns the result of the first invocation that does
\* not raise and invokes nothing after it; when all n invocations raise a
\* retryable exception the wrapper raises the exception of the n-th, with no
\* sleep after it.
C20_AtMostNThenLastException ==
    rt.max_attempts >= 1 =>
        /\ Invocations <= rt.max_attempts
        /\ \A k \in 1..Invocations :
              rt.outcomes[k].kind = "return" =>
                 /\ k = Invocations
                 /\ rt.pc = "done"
                 /\ rt.result = rt.outcomes[k]
        /\ (rt.pc = "done" /\ rt.result.kind = "return") =>
              /\ Invocations >= 1
              /\ rt.result = rt.outcomes[Invocations]
        /\ (/\ Invocations = rt.max_attempts
            /\ \A k \in 1..Invocations : RaisedRetryable(k)) =>
              /\ rt.pc = "done"
              /\ rt.result = rt.outcomes[rt.max_attempts]
              /\ Len(rt.sleeps) = rt.max_attempts - 1

C20_Witness ==
    /\ rt.max_attempts = 3
    /\ Invocations = 3
    /\ \A k \in 1..3 : RaisedRetryable(k)
    /\ rt.pc = "done"
    /\ rt.result = Raised(Exc("ConnectionError", 3))
    /\ Len(rt.sleeps) = 2


(***************************************************************************)
(* The failures counter and last_failure_time of a source (SpecCB)        *)
(***************************************************************************)
Called(op, b, source) ==
    /\ (last' # last \/ cb' # cb)
    /\ last'.op = op
    /\ last'.br = b
    /\ last'.src = source

\* C22, as stated: over is_available, record_success and record_failure
\* calls the failures counter of a source is 0 whenever a step leaves its
\* state CLOSED, and no step that leaves the state OPEN or HALF_OPEN
\* decreases failures.
C22_ClosedHasNoFailures ==
    /\ [](\A b \in Breakers, s \in CBSources :
            StateOf(b, s) = CLOSED => FailuresOf(b, s) = 0)
    /\ [][\A b \in Breakers, s \in CBSources :
            StateOf(b, s)' \in {OPEN, HALF_OPEN} => FailuresOf(b, s)' >= FailuresOf(b, s)]_vars

\* C22, amended: the failures counter of a source decreases only in a
\* record_success step, which sets the state to CLOSED and failures to 0;
\* every step that moves a source to CLOSED from OPEN or HALF_OPEN leaves
\* failures = 0; a source that stays CLOSED carries the failures counted by
\* record_failure below the threshold; no step that leaves the state OPEN or
\* HALF_OPEN decreases failures.
C22_FailuresResetOnlyByClosing ==
    /\ [](\A b \in Breakers, s \in CBSources :
            StateOf(b, s) = CLOSED => FailuresOf(b, s) < Params(b).failure_threshold)
    /\ [][\A b \in Breakers, s \in CBSources :
            /\ FailuresOf(b, s)' < FailuresOf(b, s)
                  => /\ Called("record_success", b, s)
                     /\ StateOf(b, s)' = CLOSED
                     /\ FailuresOf(b, s)' = 0
            /\ Called("record_success", b, s)
                  => /\ StateOf(b, s)' = CLOSED
                     /\ FailuresOf(b, s)' = 0
            /\ (StateOf(b, s) \in {OPEN, HALF_OPEN} /\ StateOf(b, s)' = CLOSED)
                  => FailuresOf(b, s)' = 0
            /\ (StateOf(b, s) \in {CLOSED, "absent"} /\ StateOf(b, s)' = CLOSED
                  /\ FailuresOf(b, s)' > 0)
                  => \/ FailuresOf(b, s)' = FailuresOf(b, s)
                     \/ /\ Called("record_failure", b, s)
                        /\ FailuresOf(b, s)' = FailuresOf(b, s) + 1
            /\ StateOf(b, s)' \in {OPEN, HALF_OPEN}
                  => FailuresOf(b, s)' >= FailuresOf(b, s)]_vars

\* a probe succeeded: the source went from HALF_OPEN, where it carried its
\* failures, to CLOSED with none
C22_Witness ==
    /\ last.op = "record_success"
    /\ last.pre = HALF_OPEN
    /\ StateOf(last.br, last.src) = CLOSED
    /\ FailuresOf(last.br, last.src) = 0

\* C23: a source that is OPEN has failures >= 1 and a last_failure_time that
\* is the time of its most recent record_failure call, never the 0.0 set by
\* _get_state: last_failure_time is written by record_failure only, with the
\* current time, and an OPEN source has failed since its last success.
LastFailureTimeOf(b, source) ==
    IF source \in DOMAIN cb[b] THEN Some(cb[b][source].last_failure_time) ELSE Nothing

C23_OpenHasRealFailureTime ==
    /\ [](\A b \in Breakers, s \in CBSources :
            StateOf(b, s) = OPEN
               => /\ FailuresOf(b, s) >= 1
                  /\ consec[b][s] >= 1
                  /\ cb[b][s].last_failure_time # 0
                  /\ cb[b][s].last_failure_time \in StartTimes \cup {t \in 0..now : t >= 1}
                  /\ now - cb[b][s].last_failure_time >= 0
                  /\ (last.op = "record_failure" /\ last.br = b /\ last.src = s)
                        => cb[b][s].last_failure_time = last.at)
    /\ [][\A b \in Breakers, s \in CBSources :
            /\ Called("record_failure", b, s)
                  => LastFailureTimeOf(b, s)' = Some(now)
            /\ (~Called("record_failure", b, s) /\ LastFailureTimeOf(b, s) # Nothing)
                  => LastFailureTimeOf(b, s)' = LastFailureTimeOf(b, s)]_vars

\* the source is OPEN some time after the failure that opened it
C23_Witness ==
    \E b \in Breakers, s \in CBSources :
        /\ StateOf(b, s) = OPEN
        /\ last.op = "is_available"
        /\ last.br = b
        /\ last.src = s
        /\ ~last.res
        /\ cb[b][s].last_failure_time < now
        /\ cb[b][s].last_failure_time > 0


(***************************************************************************)
(* One CircuitBreaker called from several threads.  The class takes no     *)
(* lock, so a thread can be preempted between any two reads or writes of   *)
(* the source's dict: each step below is one read or one write.            *)
(***************************************************************************)
Workers == {"w1", "w2"}

SharedBreaker == "ashare"

BreakerOps == {"record_failure", "is_available"}

Outside == [pc |-> "outside", op |-> "none", source |-> EASTMONEY, error |-> None,
            current_time |-> 0, tmp |-> 0, ret |-> Nothing]

Field(source, f) == cb[SharedBreaker][source][f]

Written(source, f, v) == cb' = [cb EXCEPT ![SharedBreaker][source][f] = v]

Goto(w, pc) == thr' = [thr EXCEPT ![w].pc = pc]

Leave(w, ret) == thr' = [thr EXCEPT ![w].pc = "returned", ![w].ret = ret]

\* a thread enters record_failure or is_available: _get_state and time.time()
BreakerCall(w, op, source, error) ==
    /\ thr[w].pc = "outside"
    /\ cb' = [cb EXCEPT ![SharedBreaker] = get_state(@, source)]
    /\ thr' = [thr EXCEPT ![w] = [Outside EXCEPT !.pc = op, !.op = op, !.source = source,
                                                 !.error = error, !.current_time = now]]
    /\ hist' = [hist EXCEPT !.calls[op] = @ + 1]
    /\ UNCHANGED <<now, cbGhosts, mgrVars, dcVars, kl, rlVars, rt>>

\* record_failure, one read or write at a time
RecordFailureStep(w) ==
    LET t == thr[w]
        src == t.source
        p == Params(SharedBreaker) IN
    /\ t.op = "record_failure"
    /\ \/ /\ t.pc = "record_failure"              \* state['failures'] += 1: the read
          /\ thr' = [thr EXCEPT ![w].tmp = Field(src, "failures"), ![w].pc = "add"]
          /\ UNCHANGED cb
       \/ /\ t.pc = "add"                         \* ... and the write
          /\ Written(src, "failures", t.tmp + 1)
          /\ Goto(w, "time")
       \/ /\ t.pc = "time"
          /\ Written(src, "last_failure_time", t.current_time)
          /\ Goto(w, "error")
       \/ /\ t.pc = "error"
          /\ Written(src, "last_error", t.error)
          /\ Goto(w, "if_half_open")
       \/ /\ t.pc = "if_half_open"
          /\ Goto(w, IF Field(src, "state") = HALF_OPEN THEN "reopen" ELSE "elif_threshold")
          /\ UNCHANGED cb
       \/ /\ t.pc = "reopen"
          /\ Written(src, "state", OPEN)
          /\ Goto(w, "reopen_calls")
       \/ /\ t.pc = "reopen_calls"
          /\ Written(src, "half_open_calls", 0)
          /\ Leave(w, Nothing)
       \/ /\ t.pc = "elif_threshold"
          /\ IF Field(src, "failures") >= p.failure_threshold
             THEN Goto(w, "open")
             ELSE Leave(w, Nothing)
          /\ UNCHANGED cb
       \/ /\ t.pc = "open"
          /\ Written(src, "state", OPEN)
          /\ Leave(w, Nothing)
    /\ UNCHANGED <<now, hist, cbGhosts, mgrVars, dcVars, kl, rlVars, rt>>

\* is_available, one read or write at a time
IsAvailableStep(w) ==
    LET t == thr[w]
        src == t.source
        p == Params(SharedBreaker) IN
    /\ t.op = "is_available"
    /\ \/ /\ t.pc = "is_available"
          /\ IF Field(src, "state") = CLOSED
             THEN Leave(w, Some(TRUE))
             ELSE Goto(w, "if_open")
          /\ UNCHANGED <<cb, hist>>
       \/ /\ t.pc = "if_open"
          /\ Goto(w, IF Field(src, "state") = OPEN THEN "cooldown" ELSE "if_half_open")
          /\ UNCHANGED <<cb, hist>>
       \/ /\ t.pc = "cooldown"
          /\ IF t.current_time - Field(src, "last_failure_time") >= p.cooldown_seconds
             THEN Goto(w, "half_open")
             ELSE Leave(w, Some(FALSE))
          /\ UNCHANGED <<cb, hist>>
       \/ /\ t.pc = "half_open"
          /\ Written(src, "state", HALF_OPEN)
          /\ hist' = [hist EXCEPT !.transitions = @ + 1]
          /\ Goto(w, "half_open_calls")
       \/ /\ t.pc = "half_open_calls"
          /\ Written(src, "half_open_calls", 0)
          /\ Leave(w, Some(TRUE))
          /\ UNCHANGED hist
       \/ /\ t.pc = "if_half_open"
          /\ IF Field(src, "state") = HALF_OPEN
             THEN Goto(w, "max_calls")
             ELSE Leave(w, Some(TRUE))
          /\ UNCHANGED <<cb, hist>>
       \/ /\ t.pc = "max_calls"
          /\ Leave(w, Some(Field(src, "half_open_calls") < p.half_open_max_calls))
          /\ UNCHANGED <<cb, hist>>
    /\ UNCHANGED <<now, cbGhosts, mgrVars, dcVars, kl, rlVars, rt>>

\* the source the threads share: CLOSED below the threshold, or OPEN since a
\* failure one cooldown ago or at this moment
SharedStates ==
    {[NewSourceState EXCEPT !.failures = f,
                            !.last_failure_time = IF f = 0 THEN 0 ELSE now,
                            !.last_error = IF f = 0 THEN None ELSE "timeout"] :
        f \in 0..(ashare_circuit_breaker.failure_threshold - 1)}
    \cup
    {[NewSourceState EXCEPT !.state = OPEN,
                            !.failures = ashare_circuit_breaker.failure_threshold,
                            !.last_failure_time = at,
                            !.last_error = "timeout"] :
        at \in {now, now - ashare_circuit_breaker.cooldown_seconds}}

InitShared ==
    /\ now \in StartTimes
    /\ \E st \in SharedStates :
          /\ cb = [b \in Breakers |-> IF b = SharedBreaker THEN [s \in CBSources |-> st] ELSE <<>>]
          /\ hist = [before |-> st, calls |-> [op \in BreakerOps |-> 0], transitions |-> 0]
    /\ thr = [w \in Workers |-> Outside]
    /\ last = NoCall
    /\ consec = [b \in Breakers |-> [s \in CBSources |-> 0]]
    /\ probeFailAt = [b \in Breakers |-> [s \in CBSources |-> {}]]
    /\ grants = [b \in Breakers |-> [s \in CBSources |-> 0]]
    /\ cache = [c \in Partitions |-> NewCache]
    /\ has_akshare = TRUE
    /\ req = [t \in Threads |-> IdleRequest]
    /\ nreq = 0
    /\ conf = DefaultConf
    /\ store = NewCache
    /\ called = NoCacheCall
    /\ gets = 0
    /\ touched = [k \in Keys |-> Nothing]
    /\ nops = 0
    /\ kl = NoFetch
    /\ rl = NewRateLimiter(eastmoney_limiter)
    /\ waited = NoWait
    /\ rt = NoRetry

NextShared ==
    \/ \E w \in Workers, op \in BreakerOps, s \in CBSources, e \in ErrorArgs :
          BreakerCall(w, op, s, e)
    \/ \E w \in Workers : RecordFailureStep(w)
    \/ \E w \in Workers : IsAvailableStep(w)

SpecShared == InitShared /\ [][NextShared]_vars

\* C24: calls on one CircuitBreaker exclude each other: after N concurrent
\* record_failure calls failures is the previous count plus N, and concurrent
\* is_available calls on an OPEN source whose cooldown has elapsed perform
\* the OPEN -> HALF_OPEN transition once.
AllReturned == \A w \in Workers : thr[w].pc \in {"outside", "returned"}

C24_BreakerCallsExclusive ==
    \A s \in CBSources :
        /\ AllReturned =>
              Field(s, "failures") = hist.before.failures + hist.calls["record_failure"]
        /\ hist.transitions <= 1


\* two record_failure calls returned and failures grew by one
LostUpdate ==
    /\ AllReturned
    /\ hist.calls["record_failure"] = 2
    /\ \E s \in CBSources : Field(s, "failures") = hist.before.failures + 1

\* two is_available calls both moved the source from OPEN to HALF_OPEN
TransitionTwice ==
    /\ AllReturned
    /\ hist.transitions = 2
    /\ \A w \in Workers : thr[w].ret = Some(TRUE)


(***************************************************************************)
(* One DataCache called from several threads.  Every method body runs     *)
(* inside "with self._lock:"; the thread that holds the lock is the one   *)
(* between its acquire and its release.  The body of get and set is taken *)
(* one read or write at a time.                                           *)
(***************************************************************************)
MaxCalls == 3          \* calls the threads make in all

SharedKeys == {"a", "b"}
SharedValues == {1}
SharedSizes == {1, 2}

CacheOps ==
    [name : {"get", "delete"}, key : SharedKeys, data : {Nothing}]
    \cup [name : {"set"}, key : SharedKeys, data : {Some(v) : v \in SharedValues}]
    \cup [name : {"clear", "cleanup_expired", "stats"}, key : {""}, data : {Nothing}]

OutsideCache == [pc |-> "outside", name |-> "none", key |-> "", data |-> Nothing,
                 tmp |-> 0, expect |-> Nothing]

Inside(w) == thr[w].pc \notin {"outside", "lock"}

\* threading.RLock that lets a thread in while another one holds it
acquirable_always(w) == TRUE

\* threading.RLock: free, or held by the caller itself
acquirable(w) == \A o \in Workers \ {w} : ~Inside(o)

\* what the call returns and leaves when nothing else runs during it
sequential_ret(p, dc, c, t) ==
    CASE c.name = "get" -> cache_get_ret(dc, c.key, t)
      [] c.name = "set" -> Nothing
      [] c.name = "delete" -> cache_delete_ret(dc, c.key)
      [] c.name = "clear" -> cache_clear_ret(dc)
      [] c.name = "cleanup_expired" -> cleanup_expired_ret(dc, t)
      [] c.name = "stats" -> stats(p, dc)

sequential(p, dc, c, t) ==
    CASE c.name = "get" -> cache_get(dc, c.key, t)
      [] c.name = "set" -> cache_set(p, dc, c.key, c.data[1], Nothing, t)
      [] c.name = "delete" -> cache_delete(dc, c.key)
      [] c.name = "clear" -> cache_clear(dc)
      [] c.name = "cleanup_expired" -> cleanup_expired(dc, t)
      [] c.name = "stats" -> dc

\* a thread calls a method and waits for the lock
CacheCallStart(w, c) ==
    /\ thr[w].pc = "outside"
    /\ hist.calls < MaxCalls
    /\ thr' = [thr EXCEPT ![w] = [OutsideCache EXCEPT !.pc = "lock", !.name = c.name,
                                                      !.key = c.key, !.data = c.data]]
    /\ hist' = [hist EXCEPT !.calls = @ + 1]
    /\ UNCHANGED <<now, cb, cbGhosts, mgrVars, dcVars, kl, rlVars, rt>>

\* "with self._lock:" entered; the order in which threads enter is the
\* sequential order their calls are compared with
Acquire(w) ==
    LET t == thr[w] IN
    /\ t.pc = "lock"
    /\ acquirable(w)
    /\ thr' = [thr EXCEPT ![w].pc = "body",
                          ![w].expect = sequential_ret(conf, hist.seq, t, now)]
    /\ hist' = [hist EXCEPT !.seq = sequential(conf, @, t, now),
                            !.gets = IF t.name = "get" THEN @ + 1 ELSE @]
    /\ UNCHANGED <<now, cb, cbGhosts, mgrVars, dcVars, kl, rlVars, rt>>

\* the lock released and the value returned
Released(w, value) ==
    /\ thr' = [thr EXCEPT ![w] = OutsideCache]
    /\ hist' = [hist EXCEPT !.ok = @ /\ value = thr[w].expect,
                            !.returned = @ + 1]

\* the lock released by an exception leaving the body
RaisedInside(w) ==
    /\ thr' = [thr EXCEPT ![w] = OutsideCache]
    /\ hist' = [hist EXCEPT !.ok = FALSE, !.returned = @ + 1]

Stay(w, pc) == thr' = [thr EXCEPT ![w].pc = pc] /\ UNCHANGED hist

\* DataCache.get inside the lock
GetStep(w) ==
    LET t == thr[w]
        i == IndexOf(store.entries, t.key) IN
    /\ t.name = "get"
    /\ \/ /\ t.pc = "body"                       \* if key not in self._cache
          /\ Stay(w, IF i = 0 THEN "misses" ELSE "is_expired")
          /\ UNCHANGED store
       \/ /\ t.pc = "is_expired"                 \* entry = self._cache[key]
          /\ IF i = 0 THEN RaisedInside(w)
             ELSE Stay(w, IF is_expired(store.entries[i], now) THEN "del" ELSE "move_to_end")
          /\ UNCHANGED store
       \/ /\ t.pc = "del"
          /\ IF i = 0 THEN RaisedInside(w) /\ UNCHANGED store
             ELSE /\ store' = [store EXCEPT !.entries = Remove(@, i)]
                  /\ Stay(w, "misses")
       \/ /\ t.pc = "misses"                     \* self._misses += 1: the read
          /\ thr' = [thr EXCEPT ![w].tmp = store.misses, ![w].pc = "misses_add"]
          /\ UNCHANGED <<store, hist>>
       \/ /\ t.pc = "misses_add"
          /\ store' = [store EXCEPT !.misses = t.tmp + 1]
          /\ Released(w, Nothing)
       \/ /\ t.pc = "move_to_end"                \* ... and entry.hit_count += 1
          /\ IF i = 0 THEN RaisedInside(w) /\ UNCHANGED store
             ELSE /\ store' = [store EXCEPT !.entries =
                                 Append(Remove(@, i),
                                        [store.entries[i] EXCEPT !.hit_count = @ + 1])]
                  /\ thr' = [thr EXCEPT ![w].pc = "hits", ![w].data = Some(store.entries[i].data)]
                  /\ UNCHANGED hist
       \/ /\ t.pc = "hits"                       \* self._hits += 1: the read
          /\ thr' = [thr EXCEPT ![w].tmp = store.hits, ![w].pc = "hits_add"]
          /\ UNCHANGED <<store, hist>>
       \/ /\ t.pc = "hits_add"
          /\ store' = [store EXCEPT !.hits = t.tmp + 1]
          /\ Released(w, t.data)
    /\ UNCHANGED <<now, conf, called, gets, touched, nops, cb, cbGhosts, mgrVars, kl, rlVars, rt>>

\* DataCache.set inside the lock
SetStep(w) ==
    LET t == thr[w]
        i == IndexOf(store.entries, t.key)
        entry == [key |-> t.key, data |-> t.data[1], timestamp |-> now,
                  ttl |-> conf.default_ttl, hit_count |-> 0] IN
    /\ t.name = "set"
    /\ \/ /\ t.pc = "body"                       \* while len(self._cache) >= self.max_size
          /\ Stay(w, IF Len(store.entries) >= conf.max_size THEN "popitem" ELSE "assign")
          /\ UNCHANGED store
       \/ /\ t.pc = "popitem"
          /\ IF store.entries = <<>> THEN RaisedInside(w) /\ UNCHANGED store
             ELSE /\ store' = [store EXCEPT !.entries = Tail(@)]
                  /\ Stay(w, "body")
       \/ /\ t.pc = "assign"
          /\ store' = [store EXCEPT !.entries = IF i = 0 THEN Append(@, entry)
                                                 ELSE [@ EXCEPT ![i] = entry]]
          /\ Released(w, Nothing)
    /\ UNCHANGED <<now, conf, called, gets, touched, nops, cb, cbGhosts, mgrVars, kl, rlVars, rt>>

\* delete, clear, cleanup_expired and stats inside the lock
OtherStep(w) ==
    LET t == thr[w] IN
    /\ t.name \in {"delete", "clear", "cleanup_expired", "stats"}
    /\ t.pc = "body"
    /\ store' = sequential(conf, store, t, now)
    /\ Released(w, sequential_ret(conf, store, t, now))
    /\ UNCHANGED <<now, conf, called, gets, touched, nops, cb, cbGhosts, mgrVars, kl, rlVars, rt>>

\* the partition the threads share: empty, or holding "a", fresh or expired
SharedStores(p, t) ==
    {NewCache}
    \cup {cache_set(p, NewCache, k, v, Nothing, t) : k \in WarmKeys, v \in WarmValues}
    \cup {cache_set(p, NewCache, k, v, Some(d), t - d - d) :
             k \in WarmKeys, v \in WarmValues, d \in CacheDeltas}

InitLocked ==
    /\ now \in CacheStartTimes
    /\ conf \in {[DefaultConf EXCEPT !.max_size = n] : n \in SharedSizes}
    /\ store \in SharedStores(conf, now)
    /\ hist = [seq |-> store, calls |-> 0, gets |-> 0, returned |-> 0, ok |-> TRUE]
    /\ thr = [w \in Workers |-> OutsideCache]
    /\ cb = [b \in Breakers |-> <<>>]
    /\ last = NoCall
    /\ consec = [b \in Breakers |-> [s \in CBSources |-> 0]]
    /\ probeFailAt = [b \in Breakers |-> [s \in CBSources |-> {}]]
    /\ grants = [b \in Breakers |-> [s \in CBSources |-> 0]]
    /\ cache = [c \in Partitions |-> NewCache]
    /\ has_akshare = TRUE
    /\ req = [t \in Threads |-> IdleRequest]
    /\ nreq = 0
    /\ called = NoCacheCall
    /\ gets = 0
    /\ touched = [k \in Keys |-> Nothing]
    /\ nops = 0
    /\ kl = NoFetch
    /\ rl = NewRateLimiter(eastmoney_limiter)
    /\ waited = NoWait
    /\ rt = NoRetry

NextLocked ==
    \/ \E w \in Workers, c \in CacheOps : CacheCallStart(w, c)
    \/ \E w \in Workers : Acquire(w)
    \/ \E w \in Workers : GetStep(w)
    \/ \E w \in Workers : SetStep(w)
    \/ \E w \in Workers : OtherStep(w)

SpecLocked == InitLocked /\ [][NextLocked]_vars

\* C25: every DataCache call runs atomically with respect to the others on
\* the partition: whatever the interleaving, each call returns what it
\* returns in the sequential order in which the calls took the lock and the
\* partition is left as that order leaves it; so size <= max_size at every
\* moment and, between calls, hits + misses is the number of get calls.
NobodyInside == \A w \in Workers : ~Inside(w)

C25_CacheCallsAtomic ==
    /\ hist.ok
    /\ Cardinality({w \in Workers : Inside(w)}) <= 1
    /\ Len(store.entries) <= conf.max_size
    /\ NobodyInside =>
          /\ store = hist.seq
          /\ store.hits + store.misses = hist.gets

\* a set holds the lock, about to store its key, while a get of the same key
\* waits for the lock
C25_Witness ==
    \E w \in Workers : \E o \in Workers \ {w} :
        /\ thr[w].name = "set"
        /\ thr[w].pc = "assign"
        /\ thr[o].name = "get"
        /\ thr[o].pc = "lock"
        /\ thr[o].key = thr[w].key
        /\ hist.returned >= 1


(***************************************************************************)
(* Termination of a Manager request.  The thread that made the request    *)
(* keeps running its loop (nothing in the loop waits for another thread), *)
(* and an adapter call that was made comes back: returns or raises.       *)
(***************************************************************************)
Fairness ==
    \A t \in Threads : WF_vars(Walk(t)) /\ WF_vars(FetchReturn(t))

\* requests served one after the other from process start
NextFair ==
    \/ \E t \in Threads, sy \in Symbols, tf \in Timeframes, li \in Limits,
          bt \in BeforeTimes, uc \in BOOLEAN :
             Driven("ashare") /\ get_kline(t, sy, tf, li, bt, uc)
    \/ \E t \in Threads, sy \in Symbols, uc \in BOOLEAN :
          Driven("realtime") /\ get_realtime_quote(t, sy, uc)
    \/ \E t \in Threads : Walk(t)
    \/ \E t \in Threads : FetchReturn(t)
    \/ \E t \in Threads : Finish(t)

SpecFair == Init /\ [][NextFair]_vars /\ Fairness

\* the adapter calls made for a request so far, by source
InvocationsOf(r, source) ==
    {i \in 1..Len(r.log) : r.log[i].src = source /\ Invoked(r.log[i])}

InvokedAtMostOnce(r) ==
    \A i \in 1..Len(SourcesOf(r.api)) :
        Cardinality(InvocationsOf(r, SourcesOf(r.api)[i])) <= 1

\* C26: provided every adapter call eventually returns or raises, every
\* get_kline and get_realtime_quote call eventually returns, and it has then
\* invoked each provider of its list at most once.
C26_EveryCallReturns ==
    \A t \in Threads :
        (req[t].pc \in {"walk", "fetch"})
            ~> (/\ req[t].pc = "done"
                /\ req[t].ret.kind = "return"
                /\ InvokedAtMostOnce(req[t]))

\* a call returned after it went through its whole list: one provider was
\* skipped, the others were invoked once each and none of them had a result
C26_Witness ==
    \E t \in Threads :
        LET r == req[t] IN
        /\ r.pc = "done"
        /\ r.ret.kind = "return"
        /\ r.ret.source = ""
        /\ Len(r.log) = Len(SourcesOf(r.api))
        /\ \E i \in 1..Len(r.log) : r.log[i].outcome = "skipped"
        /\ \E i \in 1..Len(r.log) : r.log[i].outcome = "raised"
        /\ \E i \in 1..Len(r.log) : r.log[i].outcome = "passed"


(***************************************************************************)
(* An adapter that returns nothing (Spec)                                  *)
(***************************************************************************)
\* the adapter call of thread t came back with an empty list / an empty quote
ReturnedEmpty(t) ==
    /\ req[t].pc = "fetch"
    /\ LastEntry(req'[t]).value # Nothing
    /\ ~NonEmpty(req[t].api, LastEntry(req'[t]).value[1])

\* C27: when an adapter returns an empty result without raising, neither
\* record_success nor record_failure is called: state, failures,
\* last_failure_time and last_error of the source are as before the adapter
\* returned (HALF_OPEN stays HALF_OPEN, a CLOSED source keeps its failures),
\* and the Manager goes on to the next provider.
C27_EmptyResultLeavesBreaker ==
    [][\A t \in Threads :
          ReturnedEmpty(t) =>
             LET b == BreakerOf(req[t].api)
                 source == SourcesOf(req[t].api)[req[t].i] IN
             /\ source \in DOMAIN cb[b]
             /\ cb'[b][source].state = cb[b][source].state
             /\ cb'[b][source].failures = cb[b][source].failures
             /\ cb'[b][source].last_failure_time = cb[b][source].last_failure_time
             /\ cb'[b][source].last_error = cb[b][source].last_error
             /\ cb' = cb
             /\ LastEntry(req'[t]).outcome = "passed"
             /\ req'[t].pc = "walk"
             /\ req'[t].i = req[t].i + 1]_vars

\* a source that was OPEN was probed after its cooldown, returned nothing,
\* and is still HALF_OPEN with the failures that opened it
C27_Witness ==
    \E t \in Threads :
        LET r == req[t]
            b == BreakerOf(r.api) IN
        /\ r.pc = "walk"
        /\ r.log # <<>>
        /\ LastEntry(r).outcome = "passed"
        /\ LastEntry(r).value = Some(<<>>)
        /\ r.api = "get_kline"
        /\ StateOf(b, LastEntry(r).src) = HALF_OPEN
        /\ FailuresOf(b, LastEntry(r).src) >= Params(b).failure_threshold


(***************************************************************************)
(* One RateLimiter called from several threads, in half seconds.  wait()  *)
(* takes no lock: its reads of _last_request_time, its two sleeps and its *)
(* write are separate steps, and other threads run during the sleeps.     *)
(* time.sleep(x) returns once x has passed, when the thread is scheduled. *)
(***************************************************************************)
MaxClock == 12         \* the clock the threads read stops here

OutsideWait == [pc |-> "outside", read |-> Nothing, wake |-> 0, wait_time |-> 0,
                ret |-> Nothing]

\* wait_time = 0.0
WaitCall(w) ==
    /\ thr[w].pc = "outside"
    /\ thr' = [thr EXCEPT ![w].pc = "if_last"]
    /\ hist' = [hist EXCEPT !.calls = @ + 1]
    /\ UNCHANGED <<now, cb, cbGhosts, mgrVars, dcVars, kl, rlVars, rt>>

Recorded == {o \in Workers : hist.recorded[o] # Nothing}

WaitStep(w) ==
    LET t == thr[w]
        p == rl.params IN
    /\ \/ /\ t.pc = "if_last"               \* if self._last_request_time is not None
          /\ thr' = [thr EXCEPT ![w].pc = IF rl.last_request_time # Nothing
                                          THEN "elapsed" ELSE "jitter"]
          /\ hist' = [hist EXCEPT !.seen[w] = Recorded]
          /\ UNCHANGED rl
       \/ /\ t.pc = "elapsed"               \* elapsed = time.time() - self._last_request_time
          /\ rl.last_request_time # Nothing
          /\ LET first == remaining(p, rl.last_request_time, rl.time) IN
             thr' = [thr EXCEPT ![w].read = rl.last_request_time,
                                ![w].wait_time = first,
                                ![w].wake = rl.time + first,
                                ![w].pc = IF first > 0 THEN "sleep" ELSE "jitter"]
          /\ hist' = [hist EXCEPT !.seen[w] = Recorded]
          /\ UNCHANGED rl
       \/ /\ t.pc = "sleep"                 \* time.sleep(wait_time) returns
          /\ rl.time >= t.wake
          /\ thr' = [thr EXCEPT ![w].pc = "jitter"]
          /\ UNCHANGED <<rl, hist>>
       \/ /\ t.pc = "jitter"                \* jitter = random.uniform(...)
          /\ \E jitter \in Jitters(p) :
                thr' = [thr EXCEPT ![w].wake = rl.time + jitter,
                                   ![w].wait_time = @ + jitter,
                                   ![w].pc = "sleep_jitter"]
          /\ UNCHANGED <<rl, hist>>
       \/ /\ t.pc = "sleep_jitter"          \* time.sleep(jitter) returns
          /\ rl.time >= t.wake
          /\ thr' = [thr EXCEPT ![w].pc = "record"]
          /\ UNCHANGED <<rl, hist>>
       \/ /\ t.pc = "record"                \* self._last_request_time = time.time()
          /\ rl' = [rl EXCEPT !.last_request_time = Some(rl.time), !.calls = @ + 1]
          /\ thr' = [thr EXCEPT ![w].pc = "returned", ![w].ret = Some(t.wait_time)]
          /\ hist' = [hist EXCEPT !.recorded[w] = Some(rl.time)]
    /\ UNCHANGED <<now, waited, cb, cbGhosts, mgrVars, dcVars, kl, rt>>

\* half a second passes
ClockTick ==
    /\ rl.time < MaxClock
    /\ rl' = [rl EXCEPT !.time = @ + 1]
    /\ UNCHANGED <<now, waited, cb, cbGhosts, mgrVars, dcVars, kl, rt, parVars>>

\* a limiter that was never used, or that recorded a request at this moment
InitRace ==
    /\ now \in StartTimes
    /\ \E p \in Limiters, l \in {Nothing, Some(0)} :
          rl = [NewRateLimiter(p) EXCEPT !.last_request_time = l]
    /\ thr = [w \in Workers |-> OutsideWait]
    /\ hist = [calls |-> 0, recorded |-> [w \in Workers |-> Nothing],
               seen |-> [w \in Workers |-> {}]]
    /\ waited = NoWait
    /\ cb = [b \in Breakers |-> <<>>]
    /\ last = NoCall
    /\ consec = [b \in Breakers |-> [s \in CBSources |-> 0]]
    /\ probeFailAt = [b \in Breakers |-> [s \in CBSources |-> {}]]
    /\ grants = [b \in Breakers |-> [s \in CBSources |-> 0]]
    /\ cache = [c \in Partitions |-> NewCache]
    /\ has_akshare = TRUE
    /\ req = [t \in Threads |-> IdleRequest]
    /\ nreq = 0
    /\ conf = DefaultConf
    /\ store = NewCache
    /\ called = NoCacheCall
    /\ gets = 0
    /\ touched = [k \in Keys |-> Nothing]
    /\ nops = 0
    /\ kl = NoFetch
    /\ rt = NoRetry

NextRace ==
    \/ \E w \in Workers : WaitCall(w)
    \/ \E w \in Workers : WaitStep(w)
    \/ ClockTick

SpecRace == InitRace /\ [][NextRace]_vars

\* C28: two threads in wait() on one RateLimiter can both read the same
\* last_request_time, both return, and record request times less than
\* min_interval apart (C28_Witness is that interleaving).  What holds in
\* every interleaving is the single caller's spacing only: a call that
\* looked at last_request_time after another call had recorded its request
\* records its own at least min_interval + jitter_min later, so two recorded
\* times closer than min_interval come from calls that overlapped.
Apart(w, o) ==
    IF hist.recorded[w][1] >= hist.recorded[o][1]
    THEN hist.recorded[w][1] - hist.recorded[o][1]
    ELSE hist.recorded[o][1] - hist.recorded[w][1]

Overlapped(w, o) == o \notin hist.seen[w] /\ w \notin hist.seen[o]

C28_SpacingOnlyWithoutOverlap ==
    \A w \in Workers : \A o \in Workers \ {w} :
        (hist.recorded[w] # Nothing /\ hist.recorded[o] # Nothing) =>
            /\ o \in hist.seen[w] =>
                  hist.recorded[w][1] - hist.recorded[o][1]
                      >= rl.params.min_interval + rl.params.jitter_min
            /\ Apart(w, o) < rl.params.min_interval => Overlapped(w, o)

C28_Witness ==
    \E w \in Workers : \E o \in Workers \ {w} :
        /\ thr[w].pc = "returned"
        /\ thr[o].pc = "returned"
        /\ thr[w].read # Nothing
        /\ thr[w].read = thr[o].read
        /\ Apart(w, o) < rl.params.min_interval


(***************************************************************************)
(* Two threads in get_kline at the same time.  The Manager holds no lock  *)
(* of its own: between a caller's cache lookup, its adapter calls and its *)
(* cache write the other caller runs.                                     *)
(***************************************************************************)
Callers == {"t1", "t2"}

InitPair ==
    /\ NothingCalledDirectly
    /\ now \in StartTimes
    /\ cb = [b \in Breakers |-> <<>>]
    /\ last = NoCall
    /\ consec = [b \in Breakers |-> [s \in CBSources |-> 0]]
    /\ probeFailAt = [b \in Breakers |-> [s \in CBSources |-> {}]]
    /\ grants = [b \in Breakers |-> [s \in CBSources |-> 0]]
    /\ cache = [c \in Partitions |-> NewCache]
    /\ has_akshare = TRUE
    /\ req = [t \in Callers |-> IdleRequest]
    /\ nreq = 0

NextPair ==
    \/ \E t \in Callers, sy \in Symbols, tf \in Timeframes, li \in Limits,
          bt \in BeforeTimes, uc \in BOOLEAN : get_kline(t, sy, tf, li, bt, uc)
    \/ \E t \in Callers : Walk(t)
    \/ \E t \in Callers : FetchReturn(t)

\* one call by each thread
SpecPair == InitPair /\ [][NextPair]_vars

\* C29: overlapping get_kline calls for one uncached key walk the provider
\* chain each on its own (C29_Witness: the same adapter invoked once per
\* caller, both callers writing the cache).  A caller is served from the
\* cache exactly when, at its cache lookup, an entry for the key was already
\* stored, that is when another caller's set had completed; otherwise it
\* starts at the head of the provider list whatever the other caller does.
ServedFromCache(r) == r.pc = "done" /\ r.ret.kind = "return" /\ r.ret.source = "cache"

C29_CacheServesCompletedSetsOnly ==
    /\ [][\A t \in Callers :
            (req[t].pc = "idle" /\ req'[t].pc # "idle")
            => /\ ServedFromCache(req'[t])
                  <=> (req'[t].use_cache /\ FreshData("kline", KlineKey(req'[t])) # {})
               /\ ServedFromCache(req'[t]) =>
                     req'[t].ret.data \in FreshData("kline", KlineKey(req'[t]))]_vars
    /\ [](\A t \in Callers :
            /\ InOrder(req[t])
            /\ ServedFromCache(req[t]) => req[t].log = <<>>
            /\ (req[t].pc \in {"fetch", "done"} /\ ~ServedFromCache(req[t]))
                  => /\ req[t].log # <<>>
                     /\ req[t].log[1].src = kline_sources[1])

\* both callers missed the cache, both called the same adapter for the same
\* key and both stored its answer
C29_Witness ==
    /\ \A t \in Callers :
          /\ WonByProvider(req[t])
          /\ req[t].use_cache
          /\ req[t].ret.source = kline_sources[1]
          /\ Len(req[t].log) = 1
          /\ req[t].log[1].outcome = "success"
    /\ \A t, u \in Callers : KeyOf(req[t]) = KeyOf(req[u])
    /\ \E e \in StoredUnder("kline", KeyOf(req["t1"])) : e.data = req["t2"].ret.data


(***************************************************************************)
(* The delays of retry_with_backoff (SpecRetry); sleeps are in tenths of  *)
(* the unit of base_delay and max_delay.                                  *)
(***************************************************************************)
\* min(base_delay * exponential_base^(k-1), max_delay)
PreJitter(a, k) ==
    LET grown == a.base_delay * pow(a.exponential_base, k - 1) IN
    IF grown < a.max_delay THEN grown ELSE a.max_delay

\* C30: the delay slept after failed attempt k (1 <= k < max_attempts) is
\* min(base_delay * exponential_base^(k-1), max_delay) scaled by a factor in
\* [0.8, 1.2]; the delay before the scaling is non-decreasing in k when
\* exponential_base >= 1 and never exceeds max_delay, and the sleep never
\* exceeds 1.2 * max_delay.
C30_BackoffDelays ==
    /\ Len(rt.sleeps) <= Max(rt.max_attempts - 1, 0)
    /\ \A k \in 1..Len(rt.sleeps) :
          /\ k < rt.max_attempts
          /\ \E f \in 8..12 : rt.sleeps[k] = PreJitter(rt.args, k) * f
          /\ PreJitter(rt.args, k) <= rt.args.max_delay
          /\ rt.sleeps[k] <= 12 * rt.args.max_delay
          /\ (rt.args.exponential_base >= 1 /\ k > 1)
                => PreJitter(rt.args, k) >= PreJitter(rt.args, k - 1)

\* two sleeps, the second one cut to max_delay and stretched by 1.2
C30_Witness ==
    /\ Len(rt.sleeps) = 2
    /\ rt.args.base_delay * rt.args.exponential_base > rt.args.max_delay
    /\ rt.sleeps[1] < 10 * rt.args.max_delay
    /\ rt.sleeps[2] = 12 * rt.args.max_delay


(***************************************************************************)
(* The callback and the exceptions of retry_with_backoff (SpecRetry)      *)
(***************************************************************************)
\* the attempts that raised an exception of the configured classes
Failed == {k \in 1..Invocations : RaisedRetryable(k)}

\* the callback raised: the exception leaves the wrapper from the handler
CallbackRaised ==
    /\ rt.pc = "done"
    /\ rt.on_retry # Nothing
    /\ rt.result \in {c \in CallbackOutcomes : c.kind = "raise"}

\* C31: on_retry is invoked once for each failed attempt that is followed by
\* another attempt, with the attempt's number and exception, after the
\* failure and before the backoff sleep; never after a successful attempt nor
\* after the max_attempts-th failure; a run with f failed attempts invokes it
\* min(f, max_attempts - 1) times, in increasing attempt order.
C31_CallbackOncePerRetry ==
    /\ rt.on_retry = Nothing => rt.retries = <<>>
    /\ rt.on_retry # Nothing =>
          /\ \A j \in 1..Len(rt.retries) :
                /\ j \in Failed
                /\ j < rt.max_attempts
                /\ rt.retries[j] = <<j, rt.outcomes[j].exc>>
          /\ Len(rt.retries) = Len(rt.sleeps) + (IF CallbackRaised THEN 1 ELSE 0)
          /\ \A k \in 1..Invocations :
                rt.outcomes[k].kind = "return" => Len(rt.retries) = k - 1
          /\ rt.pc = "done" =>
                Len(rt.retries) = Min(Cardinality(Failed), Max(rt.max_attempts - 1, 0))

\* three failed attempts of three: the callback saw the first two, in order
C31_Witness ==
    /\ rt.pc = "done"
    /\ rt.on_retry # Nothing
    /\ rt.max_attempts = 3
    /\ Cardinality(Failed) = 3
    /\ Len(rt.retries) = 2
    /\ rt.retries[1][1] = 1
    /\ rt.retries[2][1] = 2
    /\ Len(rt.sleeps) = 2

\* C32: an exception whose type is not in the exceptions tuple propagates
\* on its first occurrence: the wrapped function is not invoked again, no
\* backoff sleep follows and on_retry is not called for it.
Unlisted(k) == rt.outcomes[k].kind = "raise" /\ ~RaisedRetryable(k)

C32_UnlistedExceptionPropagates ==
    \A k \in 1..Invocations :
        Unlisted(k) =>
            /\ k = Invocations
            /\ rt.pc = "done"
            /\ rt.result = rt.outcomes[k]
            /\ Len(rt.sleeps) = k - 1
            /\ Len(rt.retries) = IF rt.on_retry # Nothing THEN k - 1 ELSE 0
            /\ \A j \in 1..Len(rt.retries) : rt.retries[j][1] # k

\* a listed exception was retried, then an unlisted one ended the call
C32_Witness ==
    /\ rt.exceptions = {"ConnectionError", "TimeoutError"}
    /\ rt.on_retry # Nothing
    /\ Invocations = 2
    /\ RaisedRetryable(1)
    /\ Unlisted(2)
    /\ rt.max_attempts > 2
    /\ rt.pc = "done"
    /\ rt.result = Raised(Exc("ValueError", 2))


(***************************************************************************)
(* Removal from a DataCache (SpecCache)                                    *)
(***************************************************************************)
\* the entries the call found, in their order
Before == called.pre.entries

Stale == {i \in 1..Len(Before) : called.at - Before[i].timestamp > Before[i].ttl}

SameCounters == store.hits = called.pre.hits /\ store.misses = called.pre.misses

\* the entries the call found, without those at the positions out
RECURSIVE Without(_, _, _)
Without(entries, out, i) ==
    IF i > Len(entries) THEN <<>>
    ELSE IF i \in out THEN Without(entries, out, i + 1)
         ELSE <<entries[i]>> \o Without(entries, out, i + 1)

\* C35: cleanup_expired removes exactly the entries whose age exceeds their
\* ttl and returns their number, leaving every fresh entry, the order of the
\* remaining entries and the hits/misses counters unchanged; delete(key)
\* removes only that key and returns true iff it was stored; clear empties
\* the partition and returns the previous size.
C35_RemovalsExact ==
    /\ CalledIs("cleanup_expired") =>
          /\ store.entries = Without(Before, Stale, 1)
          /\ called.ret = Cardinality(Stale)
          /\ SameCounters
    /\ CalledIs("delete") =>
          /\ store.entries = Without(Before, {i \in 1..Len(Before) : Before[i].key = called.key}, 1)
          /\ called.ret = (called.key \in KeysOf(called.pre))
          /\ SameCounters
    /\ CalledIs("clear") =>
          /\ store.entries = <<>>
          /\ called.ret = Len(Before)
          /\ SameCounters

\* of three entries the middle one had expired: cleanup_expired returns 1
\* and leaves the other two in their order
C35_Witness ==
    /\ CalledIs("cleanup_expired")
    /\ Len(Before) = 3
    /\ Stale = {2}
    /\ called.ret = 1
    /\ store.entries = <<Before[1], Before[3]>>

\* C36: set on a key that is stored removes no other key: the partition
\* holds the same key set as before, also when it holds max_size entries.
C36_ResetKeepsOtherKeys ==
    Reset => KeysOf(store) = KeysOf(called.pre)


(***************************************************************************)
(* Both breaker instances, two sources each, with reset                    *)
(***************************************************************************)
MaxResetCalls == 4     \* direct breaker calls in one behaviour

ResetSources == {EASTMONEY, TENCENT}
ResetDeltas == {180}

\* a direct call on the breaker instance the Manager uses for api
Direct(api, op, source, res, after) ==
    /\ nops < MaxResetCalls
    /\ nops' = nops + 1
    /\ cb' = [cb EXCEPT ![BreakerOf(api)] = after]
    /\ last' = Call(op, BreakerOf(api), source, res, StateOf(BreakerOf(api), source))
    /\ UNCHANGED <<now, consec, probeFailAt, grants, mgrVars, conf, store, called,
                   gets, touched, kl, rlVars, rt, parVars>>

DirectIsAvailable(api, source) ==
    LET b == BreakerOf(api) IN
    Direct(api, "is_available", source,
           is_available_ret(Params(b), cb[b], source, now),
           is_available_states(Params(b), cb[b], source, now))

DirectRecordSuccess(api, source) ==
    LET b == BreakerOf(api) IN
    Direct(api, "record_success", source, FALSE, record_success(Params(b), cb[b], source))

DirectRecordFailure(api, source) ==
    LET b == BreakerOf(api) IN
    /\ FailuresOf(b, source) < MaxFailures
    /\ Direct(api, "record_failure", source, FALSE,
              record_failure(Params(b), cb[b], source, "HTTP 500", now))

\* reset(source) and reset(): source is None in the second
DirectReset(api, source) ==
    Direct(api, "reset", source, FALSE, reset(cb[BreakerOf(api)], source))

DirectTick ==
    /\ \E d \in ResetDeltas :
          /\ now + d <= MaxTime
          /\ now' = now + d
    /\ UNCHANGED <<cb, cbGhosts, mgrVars, libVars>>

NextReset ==
    \/ \E api \in Apis, s \in ResetSources : DirectIsAvailable(api, s)
    \/ \E api \in Apis, s \in ResetSources : DirectRecordSuccess(api, s)
    \/ \E api \in Apis, s \in ResetSources : DirectRecordFailure(api, s)
    \/ \E api \in Apis, s \in ResetSources \cup {None} : DirectReset(api, s)
    \/ DirectTick

SpecReset == Init /\ [][NextReset]_vars

\* the record a source has, or the one _get_state would create
RecordOf(states, source) == get_state(states, source)[source]

\* the map after n more record_failure calls on source at time t
RECURSIVE Failing(_, _, _, _, _)
Failing(p, states, source, n, t) ==
    IF n = 0 THEN states
    ELSE Failing(p, record_failure(p, states, source, "HTTP 500", t), source, n - 1, t)

\* the source is as a breaker just constructed has it
AsNew(p, states, source) ==
    /\ RecordOf(states, source).state = CLOSED
    /\ RecordOf(states, source).failures = 0
    /\ RecordOf(states, source).last_error = None
    /\ \A t \in {now, now + 1, MaxTime} : is_available_ret(p, states, source, t)
    /\ \A n \in 0..p.failure_threshold :
          RecordOf(Failing(p, states, source, n, now), source).state =
              IF n < p.failure_threshold THEN CLOSED ELSE OPEN

\* the sources of states other than source are in after as they were
OtherSourcesSame(states, source, after) ==
    /\ DOMAIN after \ {source} = DOMAIN states \ {source}
    /\ \A o \in DOMAIN states \ {source} : after[o] = states[o]

\* C34: reset(source) returns that source to the initial state (CLOSED,
\* failures 0, no last_error): its next is_available is true and it needs
\* failure_threshold failures to open; all other sources are unchanged;
\* reset() does so for every source; resetting an unknown source changes
\* nothing.
C34_ResetIsInitialState ==
    [][\A api \in Apis :
         LET b == BreakerOf(api) IN
         /\ \A s \in ResetSources :
               DirectReset(api, s) =>
                  /\ AsNew(Params(b), cb'[b], s)
                  /\ OtherSourcesSame(cb[b], s, cb'[b])
                  /\ s \notin DOMAIN cb[b] => cb' = cb
                  /\ \A o \in Breakers \ {b} : cb'[o] = cb[o]
         /\ DirectReset(api, None) =>
               /\ \A s \in ResetSources : AsNew(Params(b), cb'[b], s)
               /\ \A o \in Breakers \ {b} : cb'[o] = cb[o]]_vars

\* reset(eastmoney) found eastmoney OPEN and tencent with one failure
C34_Witness ==
    /\ last.op = "reset"
    /\ last.src = EASTMONEY
    /\ last.pre = OPEN
    /\ EASTMONEY \notin DOMAIN cb[last.br]
    /\ TENCENT \in DOMAIN cb[last.br]
    /\ cb[last.br][TENCENT].failures = 1

\* C37: breaker state is independent per source and per instance:
\* is_available, record_success, record_failure and reset(source) on one
\* source leave every other source's record unchanged, and a call made on
\* the breaker of get_kline leaves that of get_realtime_quote unchanged (so
\* the availability of the same source name there), and vice versa.
SourceCall(api, s) ==
    \/ DirectIsAvailable(api, s)
    \/ DirectRecordSuccess(api, s)
    \/ DirectRecordFailure(api, s)
    \/ DirectReset(api, s)

OtherInstance(api) == IF api = "get_kline" THEN "realtime" ELSE "ashare"

C37_SourcesAndInstancesIndependent ==
    [][\A api \in Apis, s \in ResetSources :
         SourceCall(api, s) =>
            /\ \A b \in Breakers : OtherSourcesSame(cb[b], s, cb'[b])
            /\ cb'[OtherInstance(api)] = cb[OtherInstance(api)]
            /\ \A o \in ResetSources, t \in {now, MaxTime} :
                  is_available_ret(Params(OtherInstance(api)), cb'[OtherInstance(api)], o, t)
                      = is_available_ret(Params(OtherInstance(api)), cb[OtherInstance(api)], o, t)]_vars

\* eastmoney is OPEN in the historical breaker and the realtime breaker has
\* just found eastmoney available
C37_Witness ==
    /\ last.op = "is_available"
    /\ last.br = "realtime"
    /\ last.src = EASTMONEY
    /\ last.res
    /\ EASTMONEY \in DOMAIN cb["ashare"]
    /\ cb["ashare"][EASTMONEY].state = OPEN
    /\ ~is_available_ret(Params("ashare"), cb["ashare"], EASTMONEY, now)
    /\ cb["realtime"][EASTMONEY].failures = 0


(***************************************************************************)
(* The breaker calls of requests made one at a time (Spec)                 *)
(***************************************************************************)
\* the request t is at source s of breaker b: in the loop head or with the
\* adapter of s called after is_available(s) returned True
AtSource(t, b, s) ==
    LET r == req[t] IN
    /\ BreakerOf(r.api) = b
    /\ r.i \in 1..Len(SourcesOf(r.api))
    /\ SourcesOf(r.api)[r.i] = s
    /\ \/ r.pc = "walk"
       \/ /\ r.pc = "fetch"
          /\ LastEntry(r).src = s
          /\ LastEntry(r).avail

\* C38: with requests made one at a time, record_success and record_failure
\* are called for a source only after is_available returned True for it in
\* the same request, so no source goes from OPEN to CLOSED directly: every
\* exit from OPEN is the step to HALF_OPEN that is_available takes once the
\* cooldown has elapsed.
C38_OpenLeftOnlyByProbe ==
    /\ [](\A t \in Threads : \A k \in 1..Len(req[t].log) :
             Invoked(req[t].log[k]) => req[t].log[k].avail)
    /\ [][\A b \in Breakers : \A s \in DOMAIN cb[b] :
            /\ cb'[b][s] # cb[b][s] => \E t \in Threads : AtSource(t, b, s)
            /\ cb[b][s].state = OPEN /\ cb'[b][s].state # OPEN =>
                  /\ cb'[b][s].state = HALF_OPEN
                  /\ now - cb[b][s].last_failure_time >= Params(b).cooldown_seconds
                  /\ \E t \in Threads : req[t].pc = "walk" /\ AtSource(t, b, s)]_vars

\* a request found the source OPEN, was let through after the cooldown and
\* its record_success closed the source
C38_Witness ==
    \E t \in Threads :
        /\ req[t].pc = "done"
        /\ req[t].log # <<>>
        /\ LastEntry(req[t]).pre = OPEN
        /\ LastEntry(req[t]).avail
        /\ LastEntry(req[t]).outcome = "success"
        /\ StateOf(BreakerOf(req[t].api), LastEntry(req[t]).src) = CLOSED


(***************************************************************************)
(* Requests made with use_cache = False (Spec)                             *)
(***************************************************************************)
\* a step of the request of thread t
StepOf(t) == req'[t] # req[t] /\ req'[t].pc # "idle"

\* C40: get_kline and get_realtime_quote called with use_cache = False read
\* and write no cache partition: the entries, their order and the hits and
\* misses counters are unchanged by every step of the call, and a fresh
\* entry stored under the same key is neither returned nor replaced.
C40_NoCacheWithoutUseCache ==
    [][\A t \in Threads :
         StepOf(t) /\ ~req'[t].use_cache =>
            /\ cache' = cache
            /\ req'[t].ret.kind = "return" => req'[t].ret.source # "cache"]_vars

\* a get_kline made with use_cache = False went to a provider although a
\* fresh entry of an earlier call is stored under its key, and left it there
C40_Witness ==
    \E t \in Threads :
        LET r == req[t] IN
        /\ r.pc = "done"
        /\ r.api = "get_kline"
        /\ ~r.use_cache
        /\ WonByProvider(r)
        /\ cache_get_ret(cache["kline"], KlineKey(r), now) # Nothing
        /\ \A e \in StoredUnder("kline", KlineKey(r)) : e.timestamp < now
        /\ cache["kline"].hits = 0
        /\ cache["kline"].misses = 1


(***************************************************************************)
(* Recovery of a source: the clock advances and the caller keeps asking    *)
(***************************************************************************)
\* the last call was is_available(source) on b and returned True
JustGranted(b, source) ==
    /\ last.op = "is_available"
    /\ last.br = b
    /\ last.src = source
    /\ last.res

\* record_success as the Manager calls it, after is_available returned True
RecordSuccessGranted(b, source) ==
    /\ JustGranted(b, source)
    /\ RecordSuccess(b, source)

\* a failure recorded while the clock of the model can still run the cooldown
RecordFailureEarly(b, source, error) ==
    /\ now + Params(b).cooldown_seconds <= MaxTime
    /\ RecordFailure(b, source, error)

Asking == \E b \in Breakers, s \in CBSources : Driven(b) /\ IsAvailable(b, s)

NextRecover ==
    \/ Asking
    \/ \E b \in Breakers, s \in CBSources : Driven(b) /\ RecordSuccessGranted(b, s)
    \/ \E b \in Breakers, s \in CBSources, e \in ErrorArgs :
          Driven(b) /\ RecordFailureEarly(b, s, e)
    \/ Tick

\* time passes and is_available is called again
Recovering == WF_vars(Tick) /\ WF_vars(Asking)

SpecRecover == Init /\ [][NextRecover]_vars /\ Recovering

\* C33: no source is locked out for ever: once no record_failure is applied
\* to it any more and the clock keeps advancing, an OPEN source is let
\* through by a later is_available (OPEN becomes HALF_OPEN when
\* cooldown_seconds have elapsed since the last failure), and a
\* record_success then returns it to CLOSED.
C33_OpenSourceRecovers ==
    /\ \A b \in Breakers, s \in CBSources :
          (StateOf(b, s) = OPEN) ~>
              (/\ JustGranted(b, s)
               /\ last.pre = OPEN
               /\ StateOf(b, s) = HALF_OPEN
               /\ now - cb[b][s].last_failure_time >= Params(b).cooldown_seconds)
    /\ [][\A b \in Breakers, s \in CBSources :
            RecordSuccessGranted(b, s) =>
                /\ StateOf(b, s)' = CLOSED
                /\ FailuresOf(b, s)' = 0
                /\ is_available_ret(Params(b), cb'[b], s, now)]_vars

\* the source was OPEN, was let through after the cooldown and the
\* record_success of the probe closed it
C33_Witness ==
    /\ last.op = "record_success"
    /\ last.pre = HALF_OPEN
    /\ StateOf(last.br, last.src) = CLOSED
    /\ now - cb[last.br][last.src].last_failure_time >= Params(last.br).cooldown_seconds


(***************************************************************************)
(* Two overlapping get_realtime_quote requests on a strained breaker       *)
(***************************************************************************)
MaxOverlap == 1        \* clock steps while the two requests are in flight

InitOverlap ==
    /\ NothingCalledDirectly
    /\ now \in StartTimes
    /\ has_akshare = TRUE
    /\ cb = [b \in Breakers |-> IF b = BreakerOf("get_realtime_quote")
                                THEN Strained("get_realtime_quote") ELSE <<>>]
    /\ last = NoCall
    /\ consec = [b \in Breakers |-> [s \in CBSources |-> 0]]
    /\ probeFailAt = [b \in Breakers |-> [s \in CBSources |-> {}]]
    /\ grants = [b \in Breakers |-> [s \in CBSources |-> 0]]
    /\ cache = [c \in Partitions |-> NewCache]
    /\ req = [t \in Callers |-> IdleRequest]
    /\ nreq = 0

\* time passes while both requests are in the provider loop, one of them
\* waiting for its adapter
Meanwhile ==
    /\ \A t \in Callers : req[t].pc \in {"walk", "fetch"}
    /\ \E t \in Callers : req[t].pc = "fetch"
    /\ \E d \in Deltas, t0 \in StartTimes :
          /\ now + d <= t0 + MaxOverlap * d
          /\ now' = now + d
    /\ UNCHANGED <<cb, cbGhosts, mgrVars, libVars>>

NextOverlap ==
    \/ \E t \in Callers, sy \in Symbols : get_realtime_quote(t, sy, FALSE)
    \/ \E t \in Callers : Walk(t)
    \/ \E t \in Callers : FetchReturn(t)
    \/ Meanwhile

SpecOverlap == InitOverlap /\ [][NextOverlap]_vars

\* the adapter call of t comes back while its source is OPEN
ReportsLate(t) ==
    /\ req[t].pc = "fetch"
    /\ req'[t] # req[t]
    /\ StateOf(BreakerOf(req[t].api), LastEntry(req[t]).src) = OPEN

\* another request's adapter call on source raised
FailedElsewhere(t, source) ==
    \E o \in Callers \ {t} : \E k \in 1..Len(req[o].log) :
        /\ req[o].log[k].src = source
        /\ req[o].log[k].outcome = "raised"

\* C39: when requests overlap, a request that passed is_available can report
\* its outcome after other requests have opened the source: its record_failure
\* on the OPEN source moves last_failure_time to the time of the report (the
\* source stays unavailable until cooldown_seconds after that, longer than
\* cooldown_seconds after it opened) and its record_success takes the source
\* from OPEN to CLOSED without a HALF_OPEN probe.
C39_LateReportsOnOpenSource ==
    [][\A t \in Callers :
         ReportsLate(t) =>
            LET b == BreakerOf(req[t].api)
                p == Params(b)
                e == LastEntry(req[t])
                e1 == LastEntry(req'[t])
                before == cb[b][e.src]
                after == cb'[b][e.src] IN
            /\ e.avail
            /\ FailedElsewhere(t, e.src)
            /\ e1.outcome = "raised" /\ req'[t].pc = "walk" =>
                  /\ after.state = OPEN
                  /\ after.last_failure_time = now
                  /\ after.last_failure_time >= before.last_failure_time
                  /\ after.failures = before.failures + 1
                  /\ \A u \in now..(now + p.cooldown_seconds - 1) :
                        ~is_available_ret(p, cb'[b], e.src, u)
            /\ e1.outcome = "success" =>
                  /\ after.state = CLOSED
                  /\ after.failures = 0
                  /\ is_available_ret(p, cb'[b], e.src, now)
            /\ e1.outcome = "passed" => after = before]_vars

\* t1 passed is_available(eastmoney) and is_available(tencent) while they
\* were CLOSED; t2 opened eastmoney, t1's failure came a clock step later on
\* the OPEN source; t2 opened tencent and t1's success closed it
C39_Witness ==
    LET a == req["t1"]
        o == req["t2"]
        states == cb[BreakerOf("get_realtime_quote")] IN
    /\ a.pc = "done"
    /\ Len(a.log) = 2
    /\ Len(o.log) >= 2
    /\ a.log[1].src = EASTMONEY /\ a.log[1].pre = CLOSED /\ a.log[1].outcome = "raised"
    /\ a.log[1].fBefore = realtime_circuit_breaker.failure_threshold
    /\ o.log[1].outcome = "raised"
    /\ o.log[1].fAfter = realtime_circuit_breaker.failure_threshold
    /\ states[EASTMONEY].state = OPEN
    /\ states[EASTMONEY].last_failure_time = now
    /\ now \notin StartTimes
    /\ a.log[2].src = TENCENT /\ a.log[2].pre = CLOSED /\ a.log[2].outcome = "success"
    /\ o.log[2].outcome = "raised"
    /\ o.log[2].fAfter = realtime_circuit_breaker.failure_threshold
    /\ states[TENCENT].state = CLOSED

====
